---- MODULE Spec2Model ----
(***************************************************************************)
(* BikeRacerGame (contracts/RaceToken.sol) and its client-side reconciler  *)
(* (CircleService / GameContext).                                          *)
(*                                                                         *)
(* Amounts.  RACE amounts are kept in units of 5*10^14 wei, so that one    *)
(* RACE token (10^18 wei) is 2000 units; every amount the contract         *)
(* computes is a multiple of that unit, so the scaling is exact.  USDC     *)
(* amounts are kept in the token's own 6-decimal units.                    *)
(***************************************************************************)
EXTENDS Integers, Sequences, FiniteSets, TLC

\* ---------------------------------------------------------------- bounds
MaxBikes    == 1       \* mints the model follows
MaxMints    == 3       \* mints the mint-series specification follows
MaxSessions == 2       \* session ids the model follows
MaxDay      == 1       \* last day index the clock reaches
MaxTransfers == 1      \* successful credit transfers the model follows
InitUsdc    == 9       \* USDC the first player starts with (whole tokens)
InitAllowance == 6     \* USDC the first player has approved the game to spend
InitRace    == 60      \* RACE the game contract is funded with (whole tokens)
MaxMintActions == 1    \* mintBike requests the player makes in the client
MaxGames    == 1       \* games the player starts in the client
MaxInvocations == 2    \* completeCurrentGame invocations the model follows

\* ------------------------------------------------------- program constants
RACE               == 2000                 \* 10**18 wei in model units
USDC               == 1000000              \* 10**6
PRACTICE_FEE       == 0
RANKED_ENTRY_FEE   == 5 * USDC
SPORTS_BIKE_PRICE  == 1 * USDC
LADY_BIKE_PRICE    == 3 * USDC
CHOPPER_BIKE_PRICE == 5 * USDC
DAY_SECONDS        == 86400
DeployTime         == 700                  \* block.timestamp of deployment

SPORTS  == 0
LADY    == 1
CHOPPER == 2
BikeTypes == {SPORTS, LADY, CHOPPER}

PRACTICE        == 0
RANKED          == 1
DAILY_CHALLENGE == 2
GameModes == {PRACTICE, RANKED, DAILY_CHALLENGE}

\* -------------------------------------------------------------- addresses
Players   == {"p1", "p2"}
RichPlayer == "p1"            \* the other players hold the price of one Sports bike
                              \* and have approved that price and the ranked entry fee
GAME      == "game"            \* address(this)
ZERO      == "0x0"             \* address(0)
ANYONE    == "anyone"          \* sender of a call that does not read msg.sender
OWNER     == "owner"           \* owner(): the deployer (Ownable(msg.sender))
Addresses == Players \cup {GAME, OWNER}

BikeIds    == 0 .. MaxMints        \* id MaxMints is never minted
RacedBikeIds == 0 .. MaxBikes      \* bike ids startGame is called with under
                                   \* Spec; id MaxBikes is never minted there
SessionIds == 0 .. MaxSessions     \* id 0 is never allocated
Days       == 0 .. MaxDay
Names      == {"Lightning Sports"}
Scores     == {1000, 1500}
Distances  == {2000}
Dodges     == {10}
Amounts    == {40 * RACE}

VARIABLES
    now,                       \* block.timestamp
    tokenIdCounter,            \* _tokenIdCounter
    bikeOwner,                 \* ERC721 _owners
    bikeNFTs,
    ownedBikes,
    gameSessions,
    playerSessions,
    playerRewards,
    dailyChallenges,
    completedDailyChallenges,
    challengeCompleted,
    challengeBestScores,
    nextSessionId,
    totalPrizePool,
    currentChallengeDate,
    paused,                    \* Pausable _paused
    usdcBalance,               \* USDC balanceOf
    usdcAllowance,             \* USDC allowance(owner, game)
    raceBalance,               \* RACE balanceOf
    lastCall,                  \* the last transaction: function, msg.sender,
                               \* arguments, not reverted
    sumComputed,               \* history: total of totalRewards of completions
    sumClaimed,                \* history: total RACE paid out by claims
    bonusGrants,               \* history: daily rewards added, per player and day
    transfers,                 \* history: successful transferTokensToPlayer calls
    startLog,                  \* history: ids returned by successful startGame calls
    mintLog,                   \* history: ids issued by successful mintBike calls
    ui,                        \* GameProvider's React state
    userOps,                   \* user operations the relay (bundler) accepted
    mintCall,                  \* the running GameContext.mintBike, if any
    startCall,                 \* the running GameContext.startNewGame, if any
    completeCalls,             \* the completeCurrentGame invocations
    timers,                    \* pending setTimeout callbacks
    games,                     \* history: games started in the client
    mintSubmits,               \* history: mint batches handed to the relay, per request
    completionSubmits,         \* history: completion batches handed to the relay, per game
    completionsOnChain,        \* history: completion batches settled successfully, per game
    outcomes                   \* history: results CircleService returned, with their situation

chainVars == <<tokenIdCounter, bikeOwner, bikeNFTs, ownedBikes, gameSessions,
               playerSessions, playerRewards, dailyChallenges,
               completedDailyChallenges, challengeCompleted,
               challengeBestScores, nextSessionId, totalPrizePool,
               currentChallengeDate, paused, usdcBalance, usdcAllowance,
               raceBalance>>
histVars  == <<sumComputed, sumClaimed, bonusGrants, transfers, startLog,
               mintLog>>
clientVars == <<ui, userOps, mintCall, startCall, completeCalls, timers, games,
                mintSubmits, completionSubmits, completionsOnChain, outcomes>>
vars      == <<now, chainVars, lastCall, histVars, clientVars>>

\* ------------------------------------------------------- storage defaults
EmptyBike ==
    [bikeType |-> SPORTS, speed |-> 0, acceleration |-> 0, handling |-> 0,
     mintTime |-> 0, totalRaces |-> 0, totalWins |-> 0, name |-> ""]

EmptySession ==
    [player |-> ZERO, bikeTokenId |-> 0, score |-> 0, distance |-> 0,
     vehiclesDodged |-> 0, timestamp |-> 0, completed |-> FALSE,
     rewardsClaimed |-> 0, gameMode |-> PRACTICE]

EmptyChallenge ==
    [challengeDate |-> 0, targetScore |-> 0, rewardAmount |-> 0, active |-> FALSE]

\* The contract's storage (with the two token contracts) as one value, so
\* that calls can be composed and rolled back as a whole.
S ==
    [now |-> now,
     tokenIdCounter |-> tokenIdCounter, bikeOwner |-> bikeOwner,
     bikeNFTs |-> bikeNFTs, ownedBikes |-> ownedBikes,
     gameSessions |-> gameSessions, playerSessions |-> playerSessions,
     playerRewards |-> playerRewards, dailyChallenges |-> dailyChallenges,
     completedDailyChallenges |-> completedDailyChallenges,
     challengeCompleted |-> challengeCompleted,
     challengeBestScores |-> challengeBestScores,
     nextSessionId |-> nextSessionId, totalPrizePool |-> totalPrizePool,
     currentChallengeDate |-> currentChallengeDate,
     paused |-> paused,
     usdcBalance |-> usdcBalance, usdcAllowance |-> usdcAllowance,
     raceBalance |-> raceBalance,
     sumComputed |-> sumComputed, sumClaimed |-> sumClaimed,
     bonusGrants |-> bonusGrants, transfers |-> transfers,
     startLog |-> startLog, mintLog |-> mintLog]

Revert(st) == [ok |-> FALSE, st |-> st]
Return(st) == [ok |-> TRUE, st |-> st]

\* ---------------------------------------------------------- token contracts
\* usdc.transferFrom(from, address(this), amount) as called by the game.
usdcTransferFrom(st, from, amount) ==
    IF st.usdcBalance[from] >= amount /\ st.usdcAllowance[from] >= amount
    THEN Return([st EXCEPT !.usdcBalance[from] = @ - amount,
                           !.usdcBalance[GAME] = @ + amount,
                           !.usdcAllowance[from] = @ - amount])
    ELSE Revert(st)

\* raceToken.transfer(to, amount) as called by the game.
raceTransfer(st, to, amount) ==
    IF st.raceBalance[GAME] >= amount
    THEN Return([st EXCEPT !.raceBalance[GAME] = @ - amount,
                           !.raceBalance[to] = @ + amount])
    ELSE Revert(st)

\* ------------------------------------------------------------ view helpers
getCurrentDay(st) == st.now \div DAY_SECONDS

getBikeBaseStats(bikeType) ==
    IF bikeType = SPORTS THEN <<95, 85, 70>>
    ELSE IF bikeType = LADY THEN <<70, 75, 90>>
    ELSE <<80, 60, 85>>

getBikeMintPrice(bikeType) ==
    IF bikeType = SPORTS THEN SPORTS_BIKE_PRICE
    ELSE IF bikeType = LADY THEN LADY_BIKE_PRICE
    ELSE CHOPPER_BIKE_PRICE

\* ownerOf(tokenId) == owner; ownerOf reverts for an id that was never minted
OwnerIs(st, tokenId, who) == st.bikeOwner[tokenId] # ZERO /\ st.bikeOwner[tokenId] = who

\* _createDailyChallenge()
createDailyChallenge(st) ==
    LET today == getCurrentDay(st)
    IN  [st EXCEPT !.dailyChallenges[today] =
            [challengeDate |-> today,
             targetScore   |-> 500 + (st.now % 1000),
             rewardAmount  |-> 50 * RACE,
             active        |-> TRUE]]


\* -------------------------------------------------------- contract functions
\* as whenNotPaused, but never rejecting
whenNotPaused_Always(st) == TRUE

\* modifier whenNotPaused of mintBike and startGame
whenNotPaused(st) == ~st.paused

\* as mintBike, without the require around usdc.transferFrom
mintBike_NoRequire(st, sender, bikeType, bikeName) ==
    IF ~whenNotPaused(st) THEN Revert(st) ELSE
    LET paid    == usdcTransferFrom(st, sender, getBikeMintPrice(bikeType))
        tokenId == st.tokenIdCounter
        stats   == getBikeBaseStats(bikeType)
    IN  Return([paid.st EXCEPT
                !.tokenIdCounter = @ + 1,
                !.bikeNFTs[tokenId] =
                    [bikeType |-> bikeType, speed |-> stats[1],
                     acceleration |-> stats[2], handling |-> stats[3],
                     mintTime |-> st.now, totalRaces |-> 0, totalWins |-> 0,
                     name |-> bikeName],
                !.ownedBikes[sender] = Append(@, tokenId),
                !.bikeOwner[tokenId] = sender,
                !.mintLog = Append(@, tokenId)])

\* as mintBike, with tokenId = _tokenIdCounter but no increment
mintBike_NoIncrement(st, sender, bikeType, bikeName) ==
    IF ~whenNotPaused(st) THEN Revert(st) ELSE
    LET paid    == usdcTransferFrom(st, sender, getBikeMintPrice(bikeType))
        tokenId == st.tokenIdCounter
        stats   == getBikeBaseStats(bikeType)
    IN  IF ~paid.ok THEN Revert(st)
        ELSE Return([paid.st EXCEPT
                !.bikeNFTs[tokenId] =
                    [bikeType |-> bikeType, speed |-> stats[1],
                     acceleration |-> stats[2], handling |-> stats[3],
                     mintTime |-> st.now, totalRaces |-> 0, totalWins |-> 0,
                     name |-> bikeName],
                !.ownedBikes[sender] = Append(@, tokenId),
                !.bikeOwner[tokenId] = sender,
                !.mintLog = Append(@, tokenId)])

\* mintBike(_bikeType, _bikeName), msg.sender = sender
mintBike(st, sender, bikeType, bikeName) ==
    IF ~whenNotPaused(st) THEN Revert(st) ELSE
    LET paid    == usdcTransferFrom(st, sender, getBikeMintPrice(bikeType))
        tokenId == st.tokenIdCounter
        stats   == getBikeBaseStats(bikeType)
    IN  IF ~paid.ok THEN Revert(st)
        ELSE Return([paid.st EXCEPT
                !.tokenIdCounter = @ + 1,
                !.bikeNFTs[tokenId] =
                    [bikeType |-> bikeType, speed |-> stats[1],
                     acceleration |-> stats[2], handling |-> stats[3],
                     mintTime |-> st.now, totalRaces |-> 0, totalWins |-> 0,
                     name |-> bikeName],
                !.ownedBikes[sender] = Append(@, tokenId),
                !.bikeOwner[tokenId] = sender,
                !.mintLog = Append(@, tokenId)])

\* as startGameFee, without require(dailyChallenges[today].active)
startGameFee_NoActiveCheck(st, sender, gameMode) ==
    IF gameMode = RANKED
    THEN LET paid == usdcTransferFrom(st, sender, RANKED_ENTRY_FEE)
         IN  IF ~paid.ok THEN Revert(st)
             ELSE Return([paid.st EXCEPT
                     !.totalPrizePool = @ + ((RANKED_ENTRY_FEE * 80) \div 100)])
    ELSE IF gameMode = DAILY_CHALLENGE
    THEN LET today == getCurrentDay(st)
         IN  IF st.completedDailyChallenges[sender][today] THEN Revert(st)
             ELSE Return(st)
    ELSE Return(st)

\* as startGameFee, without the require around usdc.transferFrom
startGameFee_NoRequire(st, sender, gameMode) ==
    IF gameMode = RANKED
    THEN LET paid == usdcTransferFrom(st, sender, RANKED_ENTRY_FEE)
         IN  Return([paid.st EXCEPT
                     !.totalPrizePool = @ + ((RANKED_ENTRY_FEE * 80) \div 100)])
    ELSE IF gameMode = DAILY_CHALLENGE
    THEN LET today == getCurrentDay(st)
         IN  IF ~st.dailyChallenges[today].active THEN Revert(st)
             ELSE IF st.completedDailyChallenges[sender][today] THEN Revert(st)
             ELSE Return(st)
    ELSE Return(st)

\* as startGameFee, with the whole entry fee added to the prize pool
startGameFee_WholeFeeToPool(st, sender, gameMode) ==
    IF gameMode = RANKED
    THEN LET paid == usdcTransferFrom(st, sender, RANKED_ENTRY_FEE)
         IN  IF ~paid.ok THEN Revert(st)
             ELSE Return([paid.st EXCEPT
                     !.totalPrizePool = @ + RANKED_ENTRY_FEE])
    ELSE IF gameMode = DAILY_CHALLENGE
    THEN LET today == getCurrentDay(st)
         IN  IF ~st.dailyChallenges[today].active THEN Revert(st)
             ELSE IF st.completedDailyChallenges[sender][today] THEN Revert(st)
             ELSE Return(st)
    ELSE Return(st)

\* the fee part of startGame: the state after the mode's checks, or a revert
startGameFee(st, sender, gameMode) ==
    IF gameMode = RANKED
    THEN LET paid == usdcTransferFrom(st, sender, RANKED_ENTRY_FEE)
         IN  IF ~paid.ok THEN Revert(st)
             ELSE Return([paid.st EXCEPT
                     !.totalPrizePool = @ + ((RANKED_ENTRY_FEE * 80) \div 100)])
    ELSE IF gameMode = DAILY_CHALLENGE
    THEN LET today == getCurrentDay(st)
         IN  IF ~st.dailyChallenges[today].active THEN Revert(st)
             ELSE IF st.completedDailyChallenges[sender][today] THEN Revert(st)
             ELSE Return(st)
    ELSE Return(st)

\* as startGameOwnerCheck, but only requires that the bike exists
startGameOwnerCheck_AnyCaller(st, sender, bikeTokenId) ==
    st.bikeOwner[bikeTokenId] # ZERO

\* require(ownerOf(_bikeTokenId) == msg.sender)
startGameOwnerCheck(st, sender, bikeTokenId) == OwnerIs(st, bikeTokenId, sender)

\* as startGame, with sessionId = nextSessionId and no increment
startGame_NoAdvance(st, sender, bikeTokenId, gameMode) ==
    IF ~whenNotPaused(st) THEN Revert(st) ELSE
    IF ~startGameOwnerCheck(st, sender, bikeTokenId) THEN Revert(st)
    ELSE LET fee       == startGameFee(st, sender, gameMode)
             sessionId == st.nextSessionId
         IN  IF ~fee.ok THEN Revert(st)
             ELSE Return([fee.st EXCEPT
                     !.gameSessions[sessionId] =
                         [player |-> sender, bikeTokenId |-> bikeTokenId,
                          score |-> 0, distance |-> 0, vehiclesDodged |-> 0,
                          timestamp |-> st.now, completed |-> FALSE,
                          rewardsClaimed |-> 0, gameMode |-> gameMode],
                     !.playerSessions[sender] = Append(@, sessionId),
                     !.bikeNFTs[bikeTokenId].totalRaces = @ + 1,
                     !.startLog = Append(@, sessionId)])

\* as startGame, without the bike's totalRaces++
startGame_NoRaceCount(st, sender, bikeTokenId, gameMode) ==
    IF ~whenNotPaused(st) THEN Revert(st) ELSE
    IF ~startGameOwnerCheck(st, sender, bikeTokenId) THEN Revert(st)
    ELSE LET fee       == startGameFee(st, sender, gameMode)
             sessionId == st.nextSessionId
         IN  IF ~fee.ok THEN Revert(st)
             ELSE Return([fee.st EXCEPT
                     !.nextSessionId = @ + 1,
                     !.gameSessions[sessionId] =
                         [player |-> sender, bikeTokenId |-> bikeTokenId,
                          score |-> 0, distance |-> 0, vehiclesDodged |-> 0,
                          timestamp |-> st.now, completed |-> FALSE,
                          rewardsClaimed |-> 0, gameMode |-> gameMode],
                     !.playerSessions[sender] = Append(@, sessionId),
                     !.startLog = Append(@, sessionId)])

\* startGame(_bikeTokenId, _gameMode), msg.sender = sender
startGame(st, sender, bikeTokenId, gameMode) ==
    IF ~whenNotPaused(st) THEN Revert(st) ELSE
    IF ~startGameOwnerCheck(st, sender, bikeTokenId) THEN Revert(st)
    ELSE LET fee       == startGameFee(st, sender, gameMode)
             sessionId == st.nextSessionId
         IN  IF ~fee.ok THEN Revert(st)
             ELSE Return([fee.st EXCEPT
                     !.nextSessionId = @ + 1,
                     !.gameSessions[sessionId] =
                         [player |-> sender, bikeTokenId |-> bikeTokenId,
                          score |-> 0, distance |-> 0, vehiclesDodged |-> 0,
                          timestamp |-> st.now, completed |-> FALSE,
                          rewardsClaimed |-> 0, gameMode |-> gameMode],
                     !.playerSessions[sender] = Append(@, sessionId),
                     !.bikeNFTs[bikeTokenId].totalRaces = @ + 1,
                     !.startLog = Append(@, sessionId)])

\* totalRewards before the game-mode rules (lines 256-264)
baseTotalRewards(bike, score, distance, vehiclesDodged) ==
    LET baseReward    == 10 * RACE
        bikeBonus     == ((bike.speed + bike.acceleration + bike.handling)
                            * (RACE \div 10)) \div 100
        scoreBonus    == (score \div 100) * RACE
        distanceBonus == (distance \div 1000) * 5 * RACE
        dodgeBonus    == vehiclesDodged * 2 * RACE
    IN  baseReward + bikeBonus + scoreBonus + distanceBonus + dodgeBonus

\* as dailyBonusDue, without the re-check of today's completion set
dailyBonusDue_ScoreOnly(st, sender, score) ==
    score >= st.dailyChallenges[getCurrentDay(st)].targetScore

\* the daily-challenge bonus is granted: score reaches the target and the
\* caller is not yet in today's completion set (line 271)
dailyBonusDue(st, sender, score) ==
    LET today == getCurrentDay(st)
    IN  /\ score >= st.dailyChallenges[today].targetScore
        /\ ~st.completedDailyChallenges[sender][today]

\* as completeGameGuard, without require(!session.completed)
completeGameGuard_NoCompletedCheck(st, sender, sessionId) ==
    st.gameSessions[sessionId].player = sender

\* as completeGameGuard, without require(session.player == msg.sender)
completeGameGuard_NoPlayerCheck(st, sender, sessionId) ==
    ~st.gameSessions[sessionId].completed

\* require(session.player == msg.sender); require(!session.completed)
completeGameGuard(st, sender, sessionId) ==
    /\ st.gameSessions[sessionId].player = sender
    /\ ~st.gameSessions[sessionId].completed

\* completeGame(sessionId, score, distance, vehiclesDodged), msg.sender = sender
completeGame(st, sender, sessionId, score, distance, vehiclesDodged) ==
    IF ~completeGameGuard(st, sender, sessionId) THEN Revert(st)
    ELSE
    LET session == st.gameSessions[sessionId]
        bike    == st.bikeNFTs[session.bikeTokenId]
        today   == getCurrentDay(st)
        full    == baseTotalRewards(bike, score, distance, vehiclesDodged)
        bonus   == session.gameMode = DAILY_CHALLENGE
                    /\ dailyBonusDue(st, sender, score)
        totalRewards ==
            IF session.gameMode = DAILY_CHALLENGE
            THEN (IF bonus THEN full + st.dailyChallenges[today].rewardAmount
                  ELSE full)
            ELSE IF session.gameMode = PRACTICE THEN full \div 2
            ELSE full
        st1 == [st EXCEPT
                !.gameSessions[sessionId] =
                    [@ EXCEPT !.score = score, !.distance = distance,
                              !.vehiclesDodged = vehiclesDodged,
                              !.completed = TRUE,
                              !.rewardsClaimed = totalRewards],
                !.playerRewards[sender] = @ + totalRewards,
                !.sumComputed = @ + totalRewards]
        st2 == IF bonus
               THEN [st1 EXCEPT
                       !.completedDailyChallenges[sender][today] = TRUE,
                       !.challengeCompleted[today][sender] = TRUE,
                       !.challengeBestScores[today][sender] = score,
                       !.bonusGrants[sender][today] = @ + 1]
               ELSE st1
    IN  Return(st2)

\* as claimRewards, but pays the entry without zeroing it
claimRewards_KeepsEntry(st, sender) ==
    LET rewards == st.playerRewards[sender]
    IN  IF ~(rewards > 0) THEN Revert(st)
        ELSE LET sent == raceTransfer(st, sender, rewards)
             IN  IF ~sent.ok THEN Revert(st)
                 ELSE Return([sent.st EXCEPT !.sumClaimed = @ + rewards])

\* as claimRewards, but a failed token transfer does not undo the zeroing
claimRewards_NoRollback(st, sender) ==
    LET rewards == st.playerRewards[sender]
    IN  IF ~(rewards > 0) THEN Revert(st)
        ELSE LET zeroed == [st EXCEPT !.playerRewards[sender] = 0]
                 sent   == raceTransfer(zeroed, sender, rewards)
             IN  IF ~sent.ok THEN Revert(zeroed)
                 ELSE Return([sent.st EXCEPT !.sumClaimed = @ + rewards])

\* claimRewards(), msg.sender = sender
claimRewards(st, sender) ==
    LET rewards == st.playerRewards[sender]
    IN  IF ~(rewards > 0) THEN Revert(st)
        ELSE LET zeroed == [st EXCEPT !.playerRewards[sender] = 0]
                 sent   == raceTransfer(zeroed, sender, rewards)
             IN  IF ~sent.ok THEN Revert(st)
                 ELSE Return([sent.st EXCEPT !.sumClaimed = @ + rewards])

\* as transferTokensToPlayer, without require(_to != msg.sender)
transferTokensToPlayer_ToSelf(st, sender, to, amount) ==
    IF ~(st.playerRewards[sender] >= amount) THEN Revert(st)
    ELSE IF to = ZERO THEN Revert(st)
    ELSE Return([st EXCEPT !.playerRewards[sender] = @ - amount + (IF to = sender THEN amount ELSE 0),
                           !.playerRewards[to] = IF to = sender THEN @ ELSE @ + amount,
                           !.transfers = @ + 1])

\* as transferTokensToPlayer, but credits the receiver without debiting the sender
transferTokensToPlayer_NoDebit(st, sender, to, amount) ==
    IF ~(st.playerRewards[sender] >= amount) THEN Revert(st)
    ELSE IF to = sender THEN Revert(st)
    ELSE IF to = ZERO THEN Revert(st)
    ELSE Return([st EXCEPT !.playerRewards[to] = @ + amount,
                           !.transfers = @ + 1])

\* transferTokensToPlayer(_to, _amount), msg.sender = sender
transferTokensToPlayer(st, sender, to, amount) ==
    IF ~(st.playerRewards[sender] >= amount) THEN Revert(st)
    ELSE IF to = sender THEN Revert(st)
    ELSE IF to = ZERO THEN Revert(st)
    ELSE Return([st EXCEPT !.playerRewards[sender] = @ - amount,
                           !.playerRewards[to] = @ + amount,
                           !.transfers = @ + 1])

\* as updateDailyChallenge, leaving the stored day's challenge active
updateDailyChallenge_KeepsActive(st) ==
    LET today == getCurrentDay(st)
    IN  IF today > st.currentChallengeDate
        THEN Return(createDailyChallenge(
                [st EXCEPT !.currentChallengeDate = today]))
        ELSE Return(st)

\* as updateDailyChallenge, without currentChallengeDate = today
updateDailyChallenge_KeepsDate(st) ==
    LET today == getCurrentDay(st)
    IN  IF today > st.currentChallengeDate
        THEN Return(createDailyChallenge(
                [st EXCEPT !.dailyChallenges[st.currentChallengeDate].active = FALSE]))
        ELSE Return(st)

\* updateDailyChallenge()
updateDailyChallenge(st) ==
    LET today == getCurrentDay(st)
    IN  IF today > st.currentChallengeDate
        THEN Return(createDailyChallenge(
                [st EXCEPT !.dailyChallenges[st.currentChallengeDate].active = FALSE,
                           !.currentChallengeDate = today]))
        ELSE Return(st)

\* modifier onlyOwner
onlyOwner(sender) == sender = OWNER

\* pause(): onlyOwner, and _pause() itself requires the contract not paused
pause(st, sender) ==
    IF ~onlyOwner(sender) THEN Revert(st)
    ELSE IF st.paused THEN Revert(st)
    ELSE Return([st EXCEPT !.paused = TRUE])

\* unpause(): onlyOwner, and _unpause() itself requires the contract paused
unpause(st, sender) ==
    IF ~onlyOwner(sender) THEN Revert(st)
    ELSE IF ~st.paused THEN Revert(st)
    ELSE Return([st EXCEPT !.paused = FALSE])

\* as withdrawFees, but sending the contract's whole USDC balance
withdrawFees_WholeBalance(st, sender) ==
    IF ~onlyOwner(sender) THEN Revert(st)
    ELSE LET balance == st.usdcBalance[GAME]
         IN  IF ~(balance > 0) THEN Revert(st)
             ELSE Return([st EXCEPT !.usdcBalance[GAME] = @ - balance,
                                    !.usdcBalance[OWNER] = @ + balance])

\* withdrawFees(): the subtraction is checked (a negative result reverts)
withdrawFees(st, sender) ==
    IF ~onlyOwner(sender) THEN Revert(st)
    ELSE IF st.usdcBalance[GAME] < st.totalPrizePool THEN Revert(st)
    ELSE LET balance == st.usdcBalance[GAME] - st.totalPrizePool
         IN  IF ~(balance > 0) THEN Revert(st)
             ELSE Return([st EXCEPT !.usdcBalance[GAME] = @ - balance,
                                    !.usdcBalance[OWNER] = @ + balance])

\* ------------------------------------------------------------- transactions
\* A transaction's outcome becomes the new storage; a reverted one leaves
\* the storage as it was (r.st is then the storage before the call).
Commit(r, op, sender, args) ==
    /\ lastCall' = [op |-> op, sender |-> sender, args |-> args, ok |-> r.ok]
    /\ tokenIdCounter' = r.st.tokenIdCounter
    /\ bikeOwner' = r.st.bikeOwner
    /\ bikeNFTs' = r.st.bikeNFTs
    /\ ownedBikes' = r.st.ownedBikes
    /\ gameSessions' = r.st.gameSessions
    /\ playerSessions' = r.st.playerSessions
    /\ playerRewards' = r.st.playerRewards
    /\ dailyChallenges' = r.st.dailyChallenges
    /\ completedDailyChallenges' = r.st.completedDailyChallenges
    /\ challengeCompleted' = r.st.challengeCompleted
    /\ challengeBestScores' = r.st.challengeBestScores
    /\ nextSessionId' = r.st.nextSessionId
    /\ totalPrizePool' = r.st.totalPrizePool
    /\ currentChallengeDate' = r.st.currentChallengeDate
    /\ paused' = r.st.paused
    /\ usdcBalance' = r.st.usdcBalance
    /\ usdcAllowance' = r.st.usdcAllowance
    /\ raceBalance' = r.st.raceBalance
    /\ sumComputed' = r.st.sumComputed
    /\ sumClaimed' = r.st.sumClaimed
    /\ bonusGrants' = r.st.bonusGrants
    /\ transfers' = r.st.transfers
    /\ startLog' = r.st.startLog
    /\ mintLog' = r.st.mintLog

\* the contract as deployed at DeployTime (constructor, lines 123-131)
Deployed ==
    createDailyChallenge(
        [now |-> DeployTime,
         tokenIdCounter |-> 0,
         bikeOwner |-> [b \in BikeIds |-> ZERO],
         bikeNFTs |-> [b \in BikeIds |-> EmptyBike],
         ownedBikes |-> [a \in Addresses |-> << >>],
         gameSessions |-> [s \in SessionIds |-> EmptySession],
         playerSessions |-> [a \in Addresses |-> << >>],
         playerRewards |-> [a \in Addresses |-> 0],
         dailyChallenges |-> [d \in Days |-> EmptyChallenge],
         completedDailyChallenges |-> [a \in Addresses |-> [d \in Days |-> FALSE]],
         challengeCompleted |-> [d \in Days |-> [a \in Addresses |-> FALSE]],
         challengeBestScores |-> [d \in Days |-> [a \in Addresses |-> 0]],
         nextSessionId |-> 1,
         totalPrizePool |-> 0,
         currentChallengeDate |-> DeployTime \div DAY_SECONDS,
         paused |-> FALSE,
         usdcBalance |-> [a \in Addresses |->
                            IF a = RichPlayer THEN InitUsdc * USDC
                            ELSE IF a \in Players THEN SPORTS_BIKE_PRICE
                            ELSE 0],
         usdcAllowance |-> [a \in Addresses |->
                            IF a = RichPlayer THEN InitAllowance * USDC
                            ELSE IF a \in Players
                            THEN SPORTS_BIKE_PRICE + RANKED_ENTRY_FEE
                            ELSE 0],
         raceBalance |-> [a \in Addresses |-> IF a = GAME THEN InitRace * RACE ELSE 0],
         sumComputed |-> 0,
         sumClaimed |-> 0,
         bonusGrants |-> [a \in Addresses |-> [d \in Days |-> 0]],
         transfers |-> 0,
         startLog |-> << >>,
         mintLog |-> << >>])

\* ------------------------------------------------ reconciler (client) values
ME     == "p1"                 \* circleSmartAccount.address
NoBike == 0 - 1                \* selectedBike === null
NoMode == 0 - 1                \* currentGameMode === null

\* currentSessionId: null, a Date.now() placeholder, or an id read from the chain
NoSession       == [kind |-> "null", id |-> 0]
LocalSession    == [kind |-> "local", id |-> 0]
ChainSession(n) == [kind |-> "chain", id |-> n]

\* error messages, as their words; includes(msg, w) is msg.includes(w)
NoError           == << >>
ErrNoBike         == <<"No", "bike", "selected.">>
ErrNoSession      == <<"No", "active", "game", "session">>
ErrInsufficient   == <<"Insufficient", "USDC", "balance.">>
ErrReceiptTimeout == <<"Transaction", "was", "submitted", "but", "receipt",
                       "confirmation", "timed", "out.">>
ErrPaymaster      == <<"Wallet", "not", "registered", "with", "Circle's",
                       "paymaster", "system.">>
RelayErrors       == {<<"AA33", "reverted">>, <<"Request", "timeout">>}
includes(msg, w)  == \E i \in DOMAIN msg : msg[i] = w

IdleCall == [pc |-> "idle", bikeType |-> SPORTS, gameMode |-> PRACTICE,
             bikeTokenId |-> 0, score |-> 0, distance |-> 0,
             vehiclesDodged |-> 0, op |-> 0, request |-> 0, game |-> 0,
             played |-> NoSession]

\* the provider's state once the wallet is connected and the first loads are done
ConnectedUi ==
    [isConnected |-> TRUE,
     currentSessionId |-> NoSession, currentGameMode |-> NoMode,
     gameStarted |-> FALSE, gameCompleted |-> FALSE,
     ownedBikes |-> << >>, selectedBike |-> NoBike, mintedBikeTypes |-> {},
     loading |-> FALSE, error |-> NoError,
     usdcBalance |-> Deployed.usdcBalance[ME],
     playerRewards |-> 0, raceTokenBalance |-> 0, walletRaceTokenBalance |-> 0]

Init ==
    /\ now = DeployTime
    /\ lastCall = [op |-> "constructor", sender |-> ANYONE, args |-> << >>,
                   ok |-> TRUE]
    /\ tokenIdCounter = Deployed.tokenIdCounter
    /\ bikeOwner = Deployed.bikeOwner
    /\ bikeNFTs = Deployed.bikeNFTs
    /\ ownedBikes = Deployed.ownedBikes
    /\ gameSessions = Deployed.gameSessions
    /\ playerSessions = Deployed.playerSessions
    /\ playerRewards = Deployed.playerRewards
    /\ dailyChallenges = Deployed.dailyChallenges
    /\ completedDailyChallenges = Deployed.completedDailyChallenges
    /\ challengeCompleted = Deployed.challengeCompleted
    /\ challengeBestScores = Deployed.challengeBestScores
    /\ nextSessionId = Deployed.nextSessionId
    /\ totalPrizePool = Deployed.totalPrizePool
    /\ currentChallengeDate = Deployed.currentChallengeDate
    /\ paused = Deployed.paused
    /\ usdcBalance = Deployed.usdcBalance
    /\ usdcAllowance = Deployed.usdcAllowance
    /\ raceBalance = Deployed.raceBalance
    /\ sumComputed = Deployed.sumComputed
    /\ sumClaimed = Deployed.sumClaimed
    /\ bonusGrants = Deployed.bonusGrants
    /\ transfers = Deployed.transfers
    /\ startLog = Deployed.startLog
    /\ mintLog = Deployed.mintLog
    /\ ui = ConnectedUi
    /\ userOps = << >>
    /\ mintCall = IdleCall
    /\ startCall = IdleCall
    /\ completeCalls = [i \in 1 .. MaxInvocations |-> IdleCall]
    /\ timers = {}
    /\ games = 0
    /\ mintSubmits = << >>
    /\ completionSubmits = [g \in 1 .. MaxGames |-> 0]
    /\ completionsOnChain = [g \in 1 .. MaxGames |-> 0]
    /\ outcomes = {}

\* ------------------------------------------------------------------ actions
\* time passes between blocks
AdvanceTime ==
    /\ (now + DAY_SECONDS) \div DAY_SECONDS <= MaxDay
    /\ now' = now + DAY_SECONDS
    /\ UNCHANGED <<chainVars, lastCall, histVars, clientVars>>

MintBike(p, bikeType, bikeName) ==
    /\ tokenIdCounter < MaxBikes
    /\ Commit(mintBike(S, p, bikeType, bikeName), "mintBike", p,
              <<bikeType>>)
    /\ UNCHANGED <<now, clientVars>>

StartGame(p, bikeTokenId, gameMode) ==
    /\ nextSessionId <= MaxSessions
    /\ Commit(startGame(S, p, bikeTokenId, gameMode), "startGame", p,
              <<bikeTokenId, gameMode>>)
    /\ UNCHANGED <<now, clientVars>>

CompleteGame(p, sessionId, score, distance, vehiclesDodged) ==
    /\ Commit(completeGame(S, p, sessionId, score, distance, vehiclesDodged),
              "completeGame", p, <<sessionId>>)
    /\ UNCHANGED <<now, clientVars>>

ClaimRewards(p) ==
    /\ Commit(claimRewards(S, p), "claimRewards", p, << >>)
    /\ UNCHANGED <<now, clientVars>>

TransferTokensToPlayer(p, to, amount) ==
    /\ transfers < MaxTransfers
    /\ Commit(transferTokensToPlayer(S, p, to, amount), "transferTokensToPlayer", p,
              << >>)
    /\ UNCHANGED <<now, clientVars>>

UpdateDailyChallenge ==
    /\ Commit(updateDailyChallenge(S), "updateDailyChallenge", ANYONE,
              << >>)
    /\ UNCHANGED <<now, clientVars>>

Next ==
    \/ AdvanceTime
    \/ \E p \in Players, t \in BikeTypes, n \in Names : MintBike(p, t, n)
    \/ \E p \in Players, b \in RacedBikeIds, m \in GameModes : StartGame(p, b, m)
    \/ \E p \in Players, s \in SessionIds, sc \in Scores, d \in Distances,
          v \in Dodges : CompleteGame(p, s, sc, d, v)
    \/ \E p \in Players : ClaimRewards(p)
    \/ \E p \in Players, to \in Players \cup {ZERO}, a \in Amounts :
          TransferTokensToPlayer(p, to, a)
    \/ UpdateDailyChallenge

Spec == Init /\ [][Next]_vars

\* ------------------------------------------------------ owner's functions
\* The contract with its owner acting: pause, unpause and withdrawFees beside
\* the players' calls.
Pause(p) ==
    /\ Commit(pause(S, p), "pause", p, << >>)
    /\ UNCHANGED <<now, clientVars>>

Unpause(p) ==
    /\ Commit(unpause(S, p), "unpause", p, << >>)
    /\ UNCHANGED <<now, clientVars>>

WithdrawFees(p) ==
    /\ Commit(withdrawFees(S, p), "withdrawFees", p, << >>)
    /\ UNCHANGED <<now, clientVars>>

Senders == Players \cup {OWNER}

NextAdmin ==
    \/ \E p \in Players, t \in BikeTypes, n \in Names : MintBike(p, t, n)
    \/ \E p \in Players, b \in RacedBikeIds, m \in GameModes : StartGame(p, b, m)
    \/ \E p \in Players, s \in SessionIds, sc \in Scores, d \in Distances,
          v \in Dodges : CompleteGame(p, s, sc, d, v)
    \/ \E p \in Players : ClaimRewards(p)
    \/ \E p \in Players, to \in Players \cup {ZERO}, a \in Amounts :
          TransferTokensToPlayer(p, to, a)
    \/ \E p \in Senders : Pause(p)
    \/ \E p \in Senders : Unpause(p)
    \/ \E p \in Senders : WithdrawFees(p)

SpecAdmin == Init /\ [][NextAdmin]_vars

\* ------------------------------------------------------------ mint series
\* The contract under a series of mints and starts: up to MaxMints bikes.
MintBikeSeries(p, bikeType, bikeName) ==
    /\ tokenIdCounter < MaxMints
    /\ Commit(mintBike(S, p, bikeType, bikeName), "mintBike", p,
              <<bikeType>>)
    /\ UNCHANGED <<now, clientVars>>

NextMint ==
    \/ \E p \in Players, t \in BikeTypes, n \in Names : MintBikeSeries(p, t, n)
    \/ \E p \in Players, b \in BikeIds, m \in GameModes : StartGame(p, b, m)

SpecMint == Init /\ [][NextMint]_vars


\* ========================================================== relay and client
\* The client (CircleService behind GameContext) reaches the contract only
\* through user operations: a batch of calls from the smart account ME that
\* the relay executes in order and as a whole.
Call(fn, args) == [fn |-> fn, args |-> args]

\* usdc.approve(game, amount), msg.sender = owner
usdcApprove(st, owner, amount) ==
    Return([st EXCEPT !.usdcAllowance[owner] = amount])

\* one call of a batch, msg.sender = sender
ExecCall(st, sender, c) ==
    IF c.fn = "approve" THEN usdcApprove(st, sender, c.args[1])
    ELSE IF c.fn = "mintBike" THEN mintBike(st, sender, c.args[1], c.args[2])
    ELSE IF c.fn = "startGame" THEN startGame(st, sender, c.args[1], c.args[2])
    ELSE IF c.fn = "completeGame"
    THEN (IF c.args[1] \in DOMAIN st.gameSessions
          THEN completeGame(st, sender, c.args[1], c.args[2], c.args[3],
                            c.args[4])
          \* an id never allocated reads the zero session: player == address(0)
          ELSE Revert(st))
    ELSE claimRewards(st, sender)

\* the calls in order, stopping at the first that reverts
RECURSIVE ExecCalls(_, _, _)
ExecCalls(st, sender, calls) ==
    IF Len(calls) = 0 THEN Return(st)
    ELSE LET r == ExecCall(st, sender, Head(calls))
         IN  IF ~r.ok THEN r ELSE ExecCalls(r.st, sender, Tail(calls))

\* a batch takes effect as a whole or not at all
ExecBatch(st, sender, calls) ==
    LET r == ExecCalls(st, sender, calls)
    IN  IF r.ok THEN r ELSE Revert(st)

\* bundlerClient.sendUserOperation({calls, paymaster: true}) once accepted;
\* game and played record which game of the client the batch belongs to
Submitted(calls, game, played) ==
    Append(userOps, [calls |-> calls, status |-> "pending",
                     game |-> game, played |-> played])

IsCompletion(op) == op.calls[1].fn = "completeGame"
Settled(i) == userOps[i].status # "pending"

\* the ids a batch allocates stay within the model's bounds
WithinBounds(calls) ==
    \A k \in DOMAIN calls :
        /\ calls[k].fn = "mintBike" => tokenIdCounter < MaxBikes
        /\ calls[k].fn = "startGame" => nextSessionId <= MaxSessions

\* the relay includes the oldest pending user operation of the account
SettleOp(i) ==
    /\ i \in DOMAIN userOps
    /\ ~Settled(i)
    /\ \A j \in 1 .. (i - 1) : Settled(j)
    /\ WithinBounds(userOps[i].calls)
    /\ LET r == ExecBatch(S, ME, userOps[i].calls)
       IN  /\ Commit(r, "userOperation", ME, << >>)
           /\ userOps' = [userOps EXCEPT
                            ![i].status = IF r.ok THEN "success" ELSE "reverted"]
           /\ completionsOnChain' =
                IF r.ok /\ IsCompletion(userOps[i])
                THEN [completionsOnChain EXCEPT ![userOps[i].game] = @ + 1]
                ELSE completionsOnChain
    /\ UNCHANGED <<now, ui, mintCall, startCall, completeCalls, timers, games,
                   mintSubmits, completionSubmits, outcomes>>

\* ------------------------------------------------------ CircleService reads
\* a chain read either answers from the current storage or fails
ReadOutcomes == {"ok", "failed"}
maxRetries   == 3
ReadSeqs     == [1 .. maxRetries -> ReadOutcomes]

\* getPlayerBikes(): balanceOf and tokenOfOwnerByIndex of the smart account;
\* every error is caught and answered with the empty list
getPlayerBikes(st, read) ==
    IF read = "ok" THEN st.ownedBikes[ME] ELSE << >>

\* the categories of the bikes tokenIds, one getBikeNFT read per id
bikeTypesOf(st, tokenIds) ==
    {st.bikeNFTs[tokenIds[k]].bikeType : k \in DOMAIN tokenIds}

\* getOwnedBikeTypesReliable(), reads[k] being the outcome of the k-th
\* enumeration: the catch that counts a retry is only entered by a throw of
\* the try block, and nothing there throws (getPlayerBikes and the per-bike
\* reads catch their own errors), so the first enumeration is returned
RECURSIVE getOwnedBikeTypesReliableFrom(_, _, _)
getOwnedBikeTypesReliableFrom(st, reads, retryCount) ==
    IF ~(retryCount < maxRetries) THEN {}
    ELSE LET tokenIds == getPlayerBikes(st, reads[retryCount + 1])
             thrown   == FALSE
         IN  IF ~thrown THEN bikeTypesOf(st, tokenIds)
             ELSE getOwnedBikeTypesReliableFrom(st, reads, retryCount + 1)

getOwnedBikeTypesReliable(st, reads) ==
    getOwnedBikeTypesReliableFrom(st, reads, 0)

checkBikeTypeOwnership(st, bikeType, read) ==
    bikeType \in bikeTypesOf(st, getPlayerBikes(st, read))

\* GameContext.loadPlayerBikes; the memoised callback keeps the selectedBike
\* of the render that created it (null), so it always selects the first bike
loadPlayerBikes(u, st, reads, read) ==
    LET bikes == getPlayerBikes(st, read)
    IN  [u EXCEPT !.mintedBikeTypes = getOwnedBikeTypesReliable(st, reads),
                  !.ownedBikes = bikes,
                  !.selectedBike = IF Len(bikes) > 0 THEN bikes[1] ELSE @]

\* loadPlayerBikes() followed by setUsdcBalance(await getUSDCBalance())
refreshAfterMint(u, st, reads, read) ==
    [loadPlayerBikes(u, st, reads, read) EXCEPT !.usdcBalance = st.usdcBalance[ME]]

\* ---------------------------------------------- CircleService's results
\* a TransactionResult; transactionHash is "hash" for any hash the service
\* returns (a transaction hash or a user operation hash: both are opaque
\* 32-byte strings) and "none" when the field is absent
TransactionResult(success, transactionHash, error, sessionId) ==
    [success |-> success, transactionHash |-> transactionHash,
     error |-> error, sessionId |-> sessionId]

\* what CircleService.mintBike returns: on a receipt, on a receipt timeout,
\* and on a failed balance check or a rejected send (error err)
mintBikeService(event, err) ==
    IF event = "receipt" THEN TransactionResult(TRUE, "hash", NoError, NoSession)
    ELSE IF event = "timeout"
    THEN TransactionResult(FALSE, "hash", ErrReceiptTimeout, NoSession)
    ELSE TransactionResult(FALSE, "none", err, NoSession)

\* what CircleService.startGame returns for a Ranked or DailyChallenge start;
\* sessionId is what the read of nextSessionId gave
startGameService(event, err, sessionId) ==
    IF event = "receipt" THEN TransactionResult(TRUE, "hash", NoError, sessionId)
    ELSE IF event = "timeout"
    THEN TransactionResult(TRUE, "hash", NoError, LocalSession)
    ELSE TransactionResult(FALSE, "none", err, NoSession)

\* what CircleService.completeGame returns
completeGameService(event, err) ==
    IF event = "receipt" THEN TransactionResult(TRUE, "hash", NoError, NoSession)
    ELSE TransactionResult(FALSE, "none", err, NoSession)

\* the result is recorded with the operation and the situation it reports
Outcome(op, situation, result) ==
    [op |-> op, situation |-> situation, result |-> result]

\* ------------------------------------------------------------- mint a bike
\* as mintBikeFlow, but a receipt timeout sends the batch again
mintBikeFlow_RetryOnTimeout(pc, event) ==
    IF pc = "idle" /\ event = "invoked" THEN "send"
    ELSE IF pc = "send" /\ event = "accepted" THEN "awaitReceipt"
    ELSE IF pc = "awaitReceipt" /\ event = "timeout" THEN "send"
    ELSE "idle"

\* where GameContext.mintBike with CircleService.mintBike stands after an
\* event: only the player's request leads to sendUserOperation, and every
\* outcome of the send or of the receipt wait returns
mintBikeFlow(pc, event) ==
    IF pc = "idle" /\ event = "invoked" THEN "send"
    ELSE IF pc = "send" /\ event = "accepted" THEN "awaitReceipt"
    ELSE "idle"

\* the error CircleService.mintBike reports for a rejected send
mintBikeError(msg) ==
    IF includes(msg, "AA33") THEN ErrPaymaster ELSE msg

\* GameContext.mintBike once CircleService.mintBike has returned
mintBikeResult(u, success, err, bikeType) ==
    IF success
    THEN [u EXCEPT !.mintedBikeTypes = @ \cup {bikeType}, !.loading = FALSE]
    ELSE [u EXCEPT !.error = err, !.loading = FALSE]

\* as mintBikeTimers, arming the 5 s refresh together with the verification
mintBikeTimers_BothAtOnce(success, err, bikeType) ==
    IF success THEN {[kind |-> "verify", bikeType |-> bikeType],
                     [kind |-> "retry", bikeType |-> bikeType]}
    ELSE IF includes(err, "timeout")
    THEN {[kind |-> "recheck", bikeType |-> bikeType]}
    ELSE {}

\* the setTimeout calls of GameContext.mintBike for a result
mintBikeTimers(success, err, bikeType) ==
    IF success THEN {[kind |-> "verify", bikeType |-> bikeType]}
    ELSE IF includes(err, "timeout")
    THEN {[kind |-> "recheck", bikeType |-> bikeType]}
    ELSE {}

\* the player asks for a bike; the balance pre-check of CircleService.mintBike
MintBikeInvoke(bikeType) ==
    /\ mintCall.pc = "idle"
    /\ Len(mintSubmits) < MaxMintActions
    /\ mintSubmits' = Append(mintSubmits, 0)
    /\ IF usdcBalance[ME] < getBikeMintPrice(bikeType)
       THEN /\ ui' = mintBikeResult(ui, FALSE, ErrInsufficient, bikeType)
            /\ outcomes' = outcomes \cup
                  {Outcome("mint", "failure",
                           mintBikeService("failed", ErrInsufficient))}
            /\ UNCHANGED mintCall
       ELSE /\ ui' = [ui EXCEPT !.loading = TRUE, !.error = NoError]
            /\ UNCHANGED outcomes
            /\ mintCall' = [IdleCall EXCEPT
                              !.pc = mintBikeFlow("idle", "invoked"),
                              !.bikeType = bikeType,
                              !.request = Len(mintSubmits) + 1]
    /\ UNCHANGED <<now, chainVars, lastCall, histVars, userOps, startCall,
                   completeCalls, timers, games, completionSubmits,
                   completionsOnChain>>

\* sendUserOperation([approve, mintBike]); err = NoError when the relay accepts
MintBikeSend(err) ==
    /\ mintCall.pc = "send"
    /\ mintSubmits' = [mintSubmits EXCEPT ![mintCall.request] = @ + 1]
    /\ IF err = NoError
       THEN /\ userOps' = Submitted(
                  <<Call("approve", <<getBikeMintPrice(mintCall.bikeType)>>),
                    Call("mintBike", <<mintCall.bikeType, "Lightning Sports">>)>>,
                  0, NoSession)
            /\ mintCall' = [mintCall EXCEPT
                              !.pc = mintBikeFlow("send", "accepted"),
                              !.op = Len(userOps) + 1]
            /\ UNCHANGED <<ui, timers, outcomes>>
       ELSE LET r == mintBikeService("rejected", mintBikeError(err))
            IN  /\ mintCall' = [mintCall EXCEPT
                                  !.pc = mintBikeFlow("send", "rejected")]
                /\ ui' = mintBikeResult(ui, r.success, r.error, mintCall.bikeType)
                /\ timers' = timers \cup
                      mintBikeTimers(r.success, r.error, mintCall.bikeType)
                /\ outcomes' = outcomes \cup {Outcome("mint", "failure", r)}
                /\ UNCHANGED userOps
    /\ UNCHANGED <<now, chainVars, lastCall, histVars, startCall, completeCalls,
                   games, completionSubmits, completionsOnChain>>

\* the receipt arrives within 60 s: the mint is reported as successful
MintBikeReceipt ==
    /\ mintCall.pc = "awaitReceipt"
    /\ Settled(mintCall.op)
    /\ mintCall' = [mintCall EXCEPT !.pc = mintBikeFlow("awaitReceipt", "receipt")]
    /\ LET r == mintBikeService("receipt", NoError)
       IN  /\ ui' = mintBikeResult(ui, r.success, r.error, mintCall.bikeType)
           /\ timers' = timers \cup
                 mintBikeTimers(r.success, r.error, mintCall.bikeType)
           /\ outcomes' = outcomes \cup {Outcome("mint", "receipt", r)}
    /\ UNCHANGED <<now, chainVars, lastCall, histVars, userOps, startCall,
                   completeCalls, games, mintSubmits, completionSubmits,
                   completionsOnChain>>

\* 60 s pass without a receipt
MintBikeTimeout ==
    /\ mintCall.pc = "awaitReceipt"
    /\ ~Settled(mintCall.op)
    /\ mintCall' = [mintCall EXCEPT !.pc = mintBikeFlow("awaitReceipt", "timeout")]
    /\ LET r == mintBikeService("timeout", NoError)
       IN  /\ ui' = mintBikeResult(ui, r.success, r.error, mintCall.bikeType)
           /\ timers' = timers \cup
                 mintBikeTimers(r.success, r.error, mintCall.bikeType)
           /\ outcomes' = outcomes \cup {Outcome("mint", "timeout", r)}
    /\ UNCHANGED <<now, chainVars, lastCall, histVars, userOps, startCall,
                   completeCalls, games, mintSubmits, completionSubmits,
                   completionsOnChain>>

\* the 2 s timer after a reported mint: verify ownership, then refresh or
\* schedule the 5 s retry
VerifyTimer(tm, verify, reads, read) ==
    /\ tm \in timers
    /\ tm.kind = "verify"
    /\ IF checkBikeTypeOwnership(S, tm.bikeType, verify)
       THEN /\ ui' = refreshAfterMint(ui, S, reads, read)
            /\ timers' = timers \ {tm}
       ELSE /\ timers' = (timers \ {tm}) \cup
                            {[kind |-> "retry", bikeType |-> tm.bikeType]}
            /\ UNCHANGED ui
    /\ UNCHANGED <<now, chainVars, lastCall, histVars, userOps, mintCall,
                   startCall, completeCalls, games, mintSubmits,
                   completionSubmits, completionsOnChain, outcomes>>

\* the 5 s retry timer and the 10 s timer after a timeout error: refresh
ReloadTimer(tm, reads, read) ==
    /\ tm \in timers
    /\ tm.kind \in {"retry", "recheck"}
    /\ ui' = refreshAfterMint(ui, S, reads, read)
    /\ timers' = timers \ {tm}
    /\ UNCHANGED <<now, chainVars, lastCall, histVars, userOps, mintCall,
                   startCall, completeCalls, games, mintSubmits,
                   completionSubmits, completionsOnChain, outcomes>>

\* ------------------------------------------------------------ start a game
\* GameContext.startNewGame once CircleService.startGame reported success
startNewGameResult(u, sessionId, gameMode, st) ==
    [u EXCEPT !.currentSessionId = sessionId,
              !.currentGameMode = gameMode,
              !.gameStarted = TRUE,
              !.gameCompleted = FALSE,
              !.usdcBalance = IF gameMode = RANKED THEN st.usdcBalance[ME] ELSE @,
              !.error = NoError,
              !.loading = FALSE]

\* result.sessionId || Date.now()
orDateNow(sessionId) ==
    IF sessionId = ChainSession(0) \/ sessionId = NoSession THEN LocalSession
    ELSE sessionId

\* the call reaches sendUserOperation and the relay rejects the batch
StartRejected(gameMode, err) ==
    ui.selectedBike # NoBike /\ gameMode # PRACTICE /\ err # NoError

\* startNewGame(gameMode): Practice gets a local id without any call; the
\* other modes send [startGame]; err = NoError when the relay accepts
StartNewGame(gameMode, err) ==
    /\ startCall.pc = "idle"
    /\ games < MaxGames \/ StartRejected(gameMode, err)
    /\ IF ui.selectedBike = NoBike
       THEN /\ ui' = [ui EXCEPT !.error = ErrNoBike]
            /\ UNCHANGED <<userOps, startCall, games, outcomes>>
       ELSE IF gameMode = PRACTICE
       THEN /\ ui' = startNewGameResult(ui, LocalSession, gameMode, S)
            /\ games' = games + 1
            /\ outcomes' = outcomes \cup
                  {Outcome("start", "local",
                           TransactionResult(TRUE, "0xlocal", NoError,
                                             LocalSession))}
            /\ UNCHANGED <<userOps, startCall>>
       ELSE IF err = NoError
       THEN /\ userOps' = Submitted(
                  <<Call("startGame", <<ui.selectedBike, gameMode>>)>>,
                  0, NoSession)
            /\ startCall' = [IdleCall EXCEPT !.pc = "awaitReceipt",
                                             !.gameMode = gameMode,
                                             !.bikeTokenId = ui.selectedBike,
                                             !.op = Len(userOps) + 1]
            /\ ui' = [ui EXCEPT !.loading = TRUE, !.error = NoError]
            /\ UNCHANGED <<games, outcomes>>
       ELSE LET r == startGameService("rejected", err, NoSession)
            IN  /\ ui' = [ui EXCEPT !.error = r.error, !.loading = FALSE]
                /\ outcomes' = outcomes \cup {Outcome("start", "failure", r)}
                /\ UNCHANGED <<userOps, startCall, games>>
    /\ UNCHANGED <<now, chainVars, lastCall, histVars, mintCall, completeCalls,
                   timers, mintSubmits, completionSubmits, completionsOnChain>>

\* the receipt arrives within 60 s: the session id is read back from the
\* chain, or is a Date.now() placeholder when that read fails (readOk = FALSE)
StartGameReceipt(readOk) ==
    /\ startCall.pc = "awaitReceipt"
    /\ Settled(startCall.op)
    /\ LET r == startGameService("receipt", NoError,
                    IF readOk THEN ChainSession(nextSessionId - 1)
                    ELSE LocalSession)
       IN  /\ ui' = startNewGameResult(ui, orDateNow(r.sessionId),
                                       startCall.gameMode, S)
           /\ outcomes' = outcomes \cup {Outcome("start", "receipt", r)}
    /\ games' = games + 1
    /\ startCall' = IdleCall
    /\ UNCHANGED <<now, chainVars, lastCall, histVars, userOps, mintCall,
                   completeCalls, timers, mintSubmits, completionSubmits,
                   completionsOnChain>>

\* 60 s pass without a receipt: success with a local id
StartGameTimeout ==
    /\ startCall.pc = "awaitReceipt"
    /\ ~Settled(startCall.op)
    /\ LET r == startGameService("timeout", NoError, NoSession)
       IN  /\ ui' = startNewGameResult(ui, orDateNow(r.sessionId),
                                       startCall.gameMode, S)
           /\ outcomes' = outcomes \cup {Outcome("start", "timeout", r)}
    /\ games' = games + 1
    /\ startCall' = IdleCall
    /\ UNCHANGED <<now, chainVars, lastCall, histVars, userOps, mintCall,
                   completeCalls, timers, mintSubmits, completionSubmits,
                   completionsOnChain>>

\* --------------------------------------------------------- complete a game
\* the bike completeGameWithSession starts its session with
actualBikeTokenId(bikeTokenId, bikes) ==
    IF bikeTokenId > 0 THEN bikeTokenId
    ELSE IF Len(bikes) > 0 THEN bikes[1]
    ELSE 1

\* completeCurrentGame goes on: currentSessionId !== null
completeCurrentGameGuard(u) == u.currentSessionId # NoSession

\* GameContext.completeCurrentGame once CircleService.completeGame returned
completeCurrentGameResult(u, success, err) ==
    IF success
    THEN [u EXCEPT !.gameCompleted = TRUE,
                   !.gameStarted = FALSE,
                   !.currentGameMode = NoMode,
                   !.currentSessionId = NoSession,
                   !.playerRewards = 0,
                   !.raceTokenBalance = 0,
                   !.loading = FALSE]
    ELSE [u EXCEPT !.error = err, !.loading = FALSE]

\* completeCurrentGame(score, distance, vehiclesDodged), up to the first send
\* of completeGameWithSession: [startGame(bike, PRACTICE)]
CompleteCurrentGame(i, score, distance, vehiclesDodged, err, read) ==
    /\ completeCalls[i].pc = "idle"
    /\ \A j \in 1 .. (i - 1) : completeCalls[j].pc # "idle"
    /\ IF ~completeCurrentGameGuard(ui)
       THEN /\ ui' = [ui EXCEPT !.error = ErrNoSession]
            /\ UNCHANGED <<userOps, completeCalls, outcomes>>
       ELSE IF err = NoError
       THEN LET bikeTokenId == IF ui.selectedBike = NoBike THEN 0
                               ELSE ui.selectedBike
                bike == actualBikeTokenId(bikeTokenId, getPlayerBikes(S, read))
            IN  /\ userOps' = Submitted(
                      <<Call("startGame", <<bike, PRACTICE>>)>>,
                      games, ui.currentSessionId)
                /\ completeCalls' = [completeCalls EXCEPT ![i] =
                      [IdleCall EXCEPT !.pc = "awaitStart",
                                       !.bikeTokenId = bike,
                                       !.score = score,
                                       !.distance = distance,
                                       !.vehiclesDodged = vehiclesDodged,
                                       !.op = Len(userOps) + 1,
                                       !.game = games,
                                       !.played = ui.currentSessionId]]
                /\ ui' = [ui EXCEPT !.loading = TRUE, !.error = NoError]
                /\ UNCHANGED outcomes
       ELSE LET r == completeGameService("rejected", err)
            IN  /\ completeCalls' = [completeCalls EXCEPT ![i].pc = "done"]
                /\ ui' = completeCurrentGameResult(
                            [ui EXCEPT !.error = NoError], r.success, r.error)
                /\ outcomes' = outcomes \cup {Outcome("complete", "failure", r)}
                /\ UNCHANGED userOps
    /\ UNCHANGED <<now, chainVars, lastCall, histVars, mintCall, startCall,
                   timers, games, mintSubmits, completionSubmits,
                   completionsOnChain>>

\* the start batch has a receipt: read nextSessionId and send
\* [completeGame(nextSessionId - 1, ...), claimRewards]
CompleteSendBatch(i, err) ==
    /\ completeCalls[i].pc = "awaitStart"
    /\ Settled(completeCalls[i].op)
    /\ completionSubmits' = [completionSubmits EXCEPT
                               ![completeCalls[i].game] = @ + 1]
    /\ IF err = NoError
       THEN /\ userOps' = Submitted(
                  <<Call("completeGame",
                         <<nextSessionId - 1, completeCalls[i].score,
                           completeCalls[i].distance,
                           completeCalls[i].vehiclesDodged>>),
                    Call("claimRewards", << >>)>>,
                  completeCalls[i].game, completeCalls[i].played)
            /\ completeCalls' = [completeCalls EXCEPT
                                   ![i].pc = "awaitComplete",
                                   ![i].op = Len(userOps) + 1]
            /\ UNCHANGED <<ui, timers, outcomes>>
       ELSE LET r == completeGameService("rejected", err)
            IN  /\ completeCalls' = [completeCalls EXCEPT ![i].pc = "done"]
                /\ ui' = completeCurrentGameResult(ui, r.success, r.error)
                /\ outcomes' = outcomes \cup {Outcome("complete", "failure", r)}
                /\ UNCHANGED <<userOps, timers>>
    /\ UNCHANGED <<now, chainVars, lastCall, histVars, mintCall, startCall,
                   games, mintSubmits, completionsOnChain>>

\* the completion batch has a receipt: success is reported, the session is
\* cleared and the 3 s balance timer is set
CompleteReceipt(i) ==
    /\ completeCalls[i].pc = "awaitComplete"
    /\ Settled(completeCalls[i].op)
    /\ completeCalls' = [completeCalls EXCEPT ![i].pc = "done"]
    /\ LET r == completeGameService("receipt", NoError)
       IN  /\ ui' = completeCurrentGameResult(ui, r.success, r.error)
           /\ outcomes' = outcomes \cup {Outcome("complete", "receipt", r)}
    /\ timers' = timers \cup {[kind |-> "raceBalance", bikeType |-> SPORTS]}
    /\ UNCHANGED <<now, chainVars, lastCall, histVars, userOps, mintCall,
                   startCall, games, mintSubmits, completionSubmits,
                   completionsOnChain>>

\* the 3 s timer after a completion: read the wallet's RACE balance
RaceBalanceTimer(tm) ==
    /\ tm \in timers
    /\ tm.kind = "raceBalance"
    /\ ui' = [ui EXCEPT !.walletRaceTokenBalance = raceBalance[ME]]
    /\ timers' = timers \ {tm}
    /\ UNCHANGED <<now, chainVars, lastCall, histVars, userOps, mintCall,
                   startCall, completeCalls, games, mintSubmits,
                   completionSubmits, completionsOnChain, outcomes>>

FinalScores == {1500}           \* the score the client reports for a race
SendOutcomes == RelayErrors \cup {NoError}
TimerKinds == {"verify", "retry", "recheck", "raceBalance"}
Timers == [kind : TimerKinds, bikeType : BikeTypes]

NextClient ==
    \/ \E i \in 1 .. (MaxMintActions + MaxGames + 2 * MaxInvocations) : SettleOp(i)
    \/ \E t \in BikeTypes : MintBikeInvoke(t)
    \/ \E e \in SendOutcomes : MintBikeSend(e)
    \/ MintBikeReceipt
    \/ MintBikeTimeout
    \/ \E tm \in Timers, verify \in ReadOutcomes, reads \in ReadSeqs,
          read \in ReadOutcomes : VerifyTimer(tm, verify, reads, read)
    \/ \E tm \in Timers, reads \in ReadSeqs, read \in ReadOutcomes :
          ReloadTimer(tm, reads, read)
    \/ \E m \in GameModes, e \in SendOutcomes : StartNewGame(m, e)
    \/ \E readOk \in BOOLEAN : StartGameReceipt(readOk)
    \/ StartGameTimeout
    \/ \E i \in 1 .. MaxInvocations, sc \in FinalScores, d \in Distances,
          v \in Dodges, e \in SendOutcomes, read \in ReadOutcomes :
             CompleteCurrentGame(i, sc, d, v, e, read)
    \/ \E i \in 1 .. MaxInvocations, e \in SendOutcomes : CompleteSendBatch(i, e)
    \/ \E i \in 1 .. MaxInvocations : CompleteReceipt(i)
    \/ \E tm \in Timers : RaceBalanceTimer(tm)

SpecClient == Init /\ [][NextClient]_vars

\* ---------------------------------- first variant of the reconciler (client)
\* The first provider of GameContext.tsx over src/src/services/CircleService.ts.
\* Its mint flow is the code of the second provider's; its start makes no call
\* and its completion sends the provider's currentSessionId to the contract.
\* Time does not advance here, so Date.now() is one value throughout.

\* Date.now(): the wall clock in milliseconds (block.timestamp is in seconds)
DateNow == now * 1000

\* BigInt(sessionId) of the provider's currentSessionId
sessionIdArg(sessionId) ==
    IF sessionId.kind = "chain" THEN sessionId.id ELSE DateNow

\* what the first CircleService.startGame returns: no call, a Date.now() id
startGameFirst ==
    TransactionResult(TRUE, "hash", NoError, LocalSession)

\* what the first CircleService.completeGame returns: on a receipt, on the
\* 60 s receipt timeout, and on a rejected send (error err)
completeGameFirst(event, err) ==
    IF event = "receipt" THEN TransactionResult(TRUE, "hash", NoError, NoSession)
    ELSE IF event = "timeout"
    THEN TransactionResult(TRUE, "hash", NoError, NoSession)
    ELSE TransactionResult(FALSE, "none", err, NoSession)

\* the first provider's completeCurrentGame once completeGame returned; the
\* rewards are read back when the read succeeds
completeCurrentGameFirstResult(u, success, err, st, read) ==
    IF success
    THEN [u EXCEPT !.gameCompleted = TRUE,
                   !.gameStarted = FALSE,
                   !.currentGameMode = NoMode,
                   !.playerRewards =
                       IF read = "ok" THEN st.playerRewards[ME] ELSE @,
                   !.raceTokenBalance =
                       IF read = "ok" THEN st.playerRewards[ME] ELSE @,
                   !.loading = FALSE]
    ELSE [u EXCEPT !.error = err, !.loading = FALSE]

\* startNewGame(gameMode) of the first provider
StartNewGameFirst(gameMode) ==
    /\ games < MaxGames
    /\ IF ui.selectedBike = NoBike
       THEN /\ ui' = [ui EXCEPT !.error = ErrNoBike]
            /\ UNCHANGED <<games, outcomes>>
       ELSE LET r == startGameFirst
            IN  /\ ui' = startNewGameResult(ui, orDateNow(r.sessionId),
                                            gameMode, S)
                /\ games' = games + 1
                /\ outcomes' = outcomes \cup {Outcome("start", "local", r)}
    /\ UNCHANGED <<now, chainVars, lastCall, histVars, userOps, mintCall,
                   startCall, completeCalls, timers, mintSubmits,
                   completionSubmits, completionsOnChain>>

\* completeCurrentGame(score, distance, vehiclesDodged) of the first provider,
\* up to the send of [completeGame(currentSessionId, ...)]
CompleteCurrentGameFirst(i, score, distance, vehiclesDodged, err) ==
    /\ completeCalls[i].pc = "idle"
    /\ \A j \in 1 .. (i - 1) : completeCalls[j].pc # "idle"
    /\ IF ~completeCurrentGameGuard(ui)
       THEN /\ ui' = [ui EXCEPT !.error = ErrNoSession]
            /\ UNCHANGED <<userOps, completeCalls, completionSubmits, outcomes>>
       ELSE IF err = NoError
       THEN /\ userOps' = Submitted(
                  <<Call("completeGame",
                         <<sessionIdArg(ui.currentSessionId), score, distance,
                           vehiclesDodged>>)>>,
                  games, ui.currentSessionId)
            /\ completeCalls' = [completeCalls EXCEPT ![i] =
                  [IdleCall EXCEPT !.pc = "awaitComplete",
                                   !.score = score,
                                   !.distance = distance,
                                   !.vehiclesDodged = vehiclesDodged,
                                   !.op = Len(userOps) + 1,
                                   !.game = games,
                                   !.played = ui.currentSessionId]]
            /\ completionSubmits' = [completionSubmits EXCEPT ![games] = @ + 1]
            /\ ui' = [ui EXCEPT !.loading = TRUE, !.error = NoError]
            /\ UNCHANGED outcomes
       ELSE LET r == completeGameFirst("rejected", err)
            IN  /\ completeCalls' = [completeCalls EXCEPT ![i].pc = "done"]
                /\ ui' = completeCurrentGameFirstResult(
                            [ui EXCEPT !.error = NoError], r.success, r.error,
                            S, "ok")
                /\ outcomes' = outcomes \cup {Outcome("complete", "failure", r)}
                /\ UNCHANGED <<userOps, completionSubmits>>
    /\ UNCHANGED <<now, chainVars, lastCall, histVars, mintCall, startCall,
                   timers, games, mintSubmits, completionsOnChain>>

\* the receipt of the completion batch arrives within 60 s
CompleteFirstReceipt(i, read) ==
    /\ completeCalls[i].pc = "awaitComplete"
    /\ Settled(completeCalls[i].op)
    /\ completeCalls' = [completeCalls EXCEPT ![i].pc = "done"]
    /\ LET r == completeGameFirst("receipt", NoError)
       IN  /\ ui' = completeCurrentGameFirstResult(ui, r.success, r.error,
                                                   S, read)
           /\ outcomes' = outcomes \cup {Outcome("complete", "receipt", r)}
    /\ UNCHANGED <<now, chainVars, lastCall, histVars, userOps, mintCall,
                   startCall, timers, games, mintSubmits, completionSubmits,
                   completionsOnChain>>

\* 60 s pass without a receipt
CompleteFirstTimeout(i, read) ==
    /\ completeCalls[i].pc = "awaitComplete"
    /\ ~Settled(completeCalls[i].op)
    /\ completeCalls' = [completeCalls EXCEPT ![i].pc = "done"]
    /\ LET r == completeGameFirst("timeout", NoError)
       IN  /\ ui' = completeCurrentGameFirstResult(ui, r.success, r.error,
                                                   S, read)
           /\ outcomes' = outcomes \cup {Outcome("complete", "timeout", r)}
    /\ UNCHANGED <<now, chainVars, lastCall, histVars, userOps, mintCall,
                   startCall, timers, games, mintSubmits, completionSubmits,
                   completionsOnChain>>

NextFirst ==
    \/ \E i \in 1 .. (MaxMintActions + MaxInvocations) : SettleOp(i)
    \/ \E t \in BikeTypes : MintBikeInvoke(t)
    \/ \E e \in SendOutcomes : MintBikeSend(e)
    \/ MintBikeReceipt
    \/ MintBikeTimeout
    \/ \E tm \in Timers, verify \in ReadOutcomes, reads \in ReadSeqs,
          read \in ReadOutcomes : VerifyTimer(tm, verify, reads, read)
    \/ \E tm \in Timers, reads \in ReadSeqs, read \in ReadOutcomes :
          ReloadTimer(tm, reads, read)
    \/ \E m \in GameModes : StartNewGameFirst(m)
    \/ \E i \in 1 .. MaxInvocations, sc \in FinalScores, d \in Distances,
          v \in Dodges, e \in SendOutcomes :
             CompleteCurrentGameFirst(i, sc, d, v, e)
    \/ \E i \in 1 .. MaxInvocations, read \in ReadOutcomes :
          CompleteFirstReceipt(i, read)
    \/ \E i \in 1 .. MaxInvocations, read \in ReadOutcomes :
          CompleteFirstTimeout(i, read)

SpecFirst == Init /\ [][NextFirst]_vars

\* ------------------------------------------- the client on a shared contract
\* The client of SpecClient while another player uses the same contract: the
\* other player's calls are ordered by the chain between the client's steps.
OtherPlayer == "p2"

\* the other player mints one Sports bike
OtherMintBike(bikeName) ==
    /\ ownedBikes[OtherPlayer] = << >>
    /\ MintBikeSeries(OtherPlayer, SPORTS, bikeName)

\* the other player starts one Practice session on its bike
OtherStartGame(bikeTokenId) ==
    /\ bikeOwner[bikeTokenId] = OtherPlayer
    /\ playerSessions[OtherPlayer] = << >>
    /\ StartGame(OtherPlayer, bikeTokenId, PRACTICE)

NextShared ==
    \/ \E i \in 1 .. (MaxMintActions + MaxGames + 2 * MaxInvocations) : SettleOp(i)
    \/ \E t \in BikeTypes : MintBikeInvoke(t)
    \/ \E e \in SendOutcomes : MintBikeSend(e)
    \/ MintBikeReceipt
    \/ MintBikeTimeout
    \/ \E tm \in Timers, verify \in ReadOutcomes, reads \in ReadSeqs,
          read \in ReadOutcomes : VerifyTimer(tm, verify, reads, read)
    \/ \E tm \in Timers, reads \in ReadSeqs, read \in ReadOutcomes :
          ReloadTimer(tm, reads, read)
    \/ \E m \in GameModes, e \in SendOutcomes : StartNewGame(m, e)
    \/ \E readOk \in BOOLEAN : StartGameReceipt(readOk)
    \/ StartGameTimeout
    \/ \E i \in 1 .. MaxInvocations, sc \in FinalScores, d \in Distances,
          v \in Dodges, e \in SendOutcomes, read \in ReadOutcomes :
             CompleteCurrentGame(i, sc, d, v, e, read)
    \/ \E i \in 1 .. MaxInvocations, e \in SendOutcomes : CompleteSendBatch(i, e)
    \/ \E i \in 1 .. MaxInvocations : CompleteReceipt(i)
    \/ \E tm \in Timers : RaceBalanceTimer(tm)
    \/ \E n \in Names : OtherMintBike(n)
    \/ \E b \in BikeIds : OtherStartGame(b)

SpecShared == Init /\ [][NextShared]_vars

\* ------------------------------------------------- the messages of the views
\* How the promise of GameContext.mintBike settles for a service result: a
\* failed result throws inside the try block and the catch block takes it.
mintBikeSettles(result) ==
    LET thrown == ~result.success
        caught == thrown
    IN  IF thrown /\ ~caught THEN "rejected" ELSE "fulfilled"

\* GameContext.completeCurrentGame: a failed result throws nothing and the
\* catch block takes whatever the service call throws
completeCurrentGameSettles(result) ==
    "fulfilled"

\* GameMenu.handleMintBike: the message set after `await mintBike(...)`
handleMintBike(settled) ==
    IF settled = "fulfilled" THEN "purchaseSuccess" ELSE "purchaseFailed"

\* BikeRunner endGame: the message set after `await completeCurrentGame(...)`
endGame(settled) ==
    IF settled = "fulfilled" THEN "transactionConfirmed" ELSE "failedToSave"

\* ------------------------------------------------- the wallet disconnects
\* The client of SpecClient with disconnectWallet: once disconnected no
\* handler is invoked any more (each returns at its isConnected check), while
\* the calls already running and the timers already set go on, on the
\* service and the callbacks they captured.

\* GameContext.disconnectWallet
disconnectWallet(u) ==
    [u EXCEPT !.isConnected = FALSE,
              !.usdcBalance = 0,
              !.currentSessionId = NoSession,
              !.currentGameMode = NoMode,
              !.gameStarted = FALSE,
              !.gameCompleted = FALSE,
              !.playerRewards = 0,
              !.raceTokenBalance = 0,
              !.ownedBikes = << >>,
              !.selectedBike = NoBike]

DisconnectWallet ==
    /\ ui.isConnected
    /\ ui' = disconnectWallet(ui)
    /\ UNCHANGED <<now, chainVars, lastCall, histVars, userOps, mintCall,
                   startCall, completeCalls, timers, games, mintSubmits,
                   completionSubmits, completionsOnChain, outcomes>>

\* the handlers return at `if (!isConnected || !circleService)` once the
\* wallet is disconnected
MintBikeWhileConnected(bikeType) ==
    ui.isConnected /\ MintBikeInvoke(bikeType)

StartNewGameWhileConnected(gameMode, err) ==
    ui.isConnected /\ StartNewGame(gameMode, err)

CompleteCurrentGameWhileConnected(i, score, distance, vehiclesDodged, err, read) ==
    ui.isConnected /\ CompleteCurrentGame(i, score, distance, vehiclesDodged, err, read)

NextDisconnect ==
    \/ \E i \in 1 .. (MaxMintActions + MaxGames + 2 * MaxInvocations) : SettleOp(i)
    \/ \E t \in BikeTypes : MintBikeWhileConnected(t)
    \/ \E e \in SendOutcomes : MintBikeSend(e)
    \/ MintBikeReceipt
    \/ MintBikeTimeout
    \/ \E tm \in Timers, verify \in ReadOutcomes, reads \in ReadSeqs,
          read \in ReadOutcomes : VerifyTimer(tm, verify, reads, read)
    \/ \E tm \in Timers, reads \in ReadSeqs, read \in ReadOutcomes :
          ReloadTimer(tm, reads, read)
    \/ \E m \in GameModes, e \in SendOutcomes :
          StartNewGameWhileConnected(m, e)
    \/ \E readOk \in BOOLEAN : StartGameReceipt(readOk)
    \/ StartGameTimeout
    \/ \E i \in 1 .. MaxInvocations, sc \in FinalScores, d \in Distances,
          v \in Dodges, e \in SendOutcomes, read \in ReadOutcomes :
             CompleteCurrentGameWhileConnected(i, sc, d, v, e, read)
    \/ \E i \in 1 .. MaxInvocations, e \in SendOutcomes : CompleteSendBatch(i, e)
    \/ \E i \in 1 .. MaxInvocations : CompleteReceipt(i)
    \/ \E tm \in Timers : RaceBalanceTimer(tm)
    \/ DisconnectWallet

SpecDisconnect == Init /\ [][NextDisconnect]_vars

\* ------------------------------------------------ the owned-bikes enumeration
\* getPlayerBikes() read by read. Bikes are never transferred here, so
\* balanceOf is the length of the account's list and tokenOfOwnerByIndex(i)
\* its i-th entry; totalSupply is the number of bikes minted.

\* the fallback loop: ownerOf(tokenId) for tokenId = from .. maxTokens, an id
\* never minted making ownerOf revert and the loop go on
RECURSIVE scanOwners(_, _, _)
scanOwners(st, from, maxTokens) ==
    IF from > maxTokens THEN << >>
    ELSE (IF from \in DOMAIN st.bikeOwner /\ OwnerIs(st, from, ME)
          THEN <<from>> ELSE << >>)
         \o scanOwners(st, from + 1, maxTokens)

\* getPlayerBikes() when the tokenOfOwnerByIndex read of index failAt throws
\* (failAt = balanceOf: no read throws): the ids read so far stay in tokenIds
\* and the fallback pushes what it finds behind them
getPlayerBikesEnum(st, failAt) ==
    LET numBikes == Len(st.ownedBikes[ME])
    IN  IF numBikes = 0 THEN << >>
        ELSE IF failAt >= numBikes THEN st.ownedBikes[ME]
        ELSE SubSeq(st.ownedBikes[ME], 1, failAt)
                \o scanOwners(st, 1, st.tokenIdCounter)

\* GameContext.loadPlayerBikes over that enumeration
loadPlayerBikesEnum(u, st, failAt) ==
    LET bikes == getPlayerBikesEnum(st, failAt)
    IN  [u EXCEPT !.mintedBikeTypes = bikeTypesOf(st, bikes),
                  !.ownedBikes = bikes,
                  !.selectedBike = IF Len(bikes) > 0 THEN bikes[1] ELSE @]

\* the provider loads the account's bikes
LoadPlayerBikes(failAt) ==
    /\ failAt <= Len(ownedBikes[ME])
    /\ ui' = loadPlayerBikesEnum(ui, S, failAt)
    /\ UNCHANGED <<now, chainVars, lastCall, histVars, userOps, mintCall,
                   startCall, completeCalls, timers, games, mintSubmits,
                   completionSubmits, completionsOnChain, outcomes>>

NextEnum ==
    \/ \E p \in Players, t \in BikeTypes, n \in Names : MintBikeSeries(p, t, n)
    \/ \E failAt \in 0 .. MaxMints : LoadPlayerBikes(failAt)

SpecEnum == Init /\ [][NextEnum]_vars


\* ------------------------------------------------------------------- claims
RECURSIVE SumOver(_, _)
SumOver(f, D) ==
    IF D = {} THEN 0
    ELSE LET a == CHOOSE x \in D : TRUE IN f[a] + SumOver(f, D \ {a})

Allocated(s) == s >= 1 /\ s < nextSessionId
CallWas(op, p, ok) ==
    lastCall.op = op /\ lastCall.sender = p /\ lastCall.ok = ok
\* the step is a call of op by p (a cheap test ahead of the action itself)
Called(op, p) == lastCall'.op = op /\ lastCall'.sender = p

\* C1 - ledger conservation: in every reachable state the sum of all
\* playerRewards entries plus the RACE paid out by successful claimRewards
\* calls equals the sum of the totalRewards of all successful completeGame calls.
C1_LedgerConservation ==
    SumOver(playerRewards, Addresses) + sumClaimed = sumComputed

\* a claim has been paid, credits remain, and one player holds credits it
\* received by transfer only (it never started a session)
C1_Witness ==
    /\ sumClaimed > 0
    /\ sumComputed > sumClaimed
    /\ \E p \in Players : playerRewards[p] > 0 /\ playerSessions[p] = << >>

\* C2 - idempotent completion: a completeGame call on a session that is
\* already completed, by any caller with any values, is rejected and leaves
\* every playerRewards entry and the session store unchanged.
C2_IdempotentCompletion ==
    [][\A p \in Players, s \in SessionIds, sc \in Scores, d \in Distances,
          v \in Dodges :
          (gameSessions[s].completed /\ Called("completeGame", p)
                                     /\ CompleteGame(p, s, sc, d, v))
              => /\ ~lastCall'.ok
                 /\ playerRewards' = playerRewards
                 /\ gameSessions' = gameSessions]_vars

\* a player all of whose sessions are completed called completeGame again
\* and was rejected
C2_Witness ==
    \E p \in Players :
        /\ CallWas("completeGame", p, FALSE)
        /\ playerSessions[p] # << >>
        /\ \A i \in 1 .. Len(playerSessions[p]) :
              gameSessions[playerSessions[p][i]].completed

\* C3 - claim drains exactly: a successful claimRewards moves exactly the
\* caller's entry r > 0 of RACE from the contract to the caller and zeroes
\* that entry only; a claimRewards on an entry of 0 is rejected and changes
\* neither the ledger nor any token balance.
C3_ClaimDrainsExactly ==
    [][\A p \in Players :
          (Called("claimRewards", p) /\ ClaimRewards(p)) =>
              IF lastCall'.ok
              THEN /\ playerRewards[p] > 0
                   /\ playerRewards' = [playerRewards EXCEPT ![p] = 0]
                   /\ raceBalance' = [raceBalance EXCEPT
                                        ![GAME] = @ - playerRewards[p],
                                        ![p] = @ + playerRewards[p]]
              ELSE /\ playerRewards[p] = 0 \/ raceBalance[GAME] < playerRewards[p]
                   /\ UNCHANGED <<playerRewards, raceBalance, usdcBalance>>]_vars

\* a player that has been paid a claim claimed again on an entry of 0 and
\* was rejected
C3_Witness ==
    \E p \in Players :
        /\ CallWas("claimRewards", p, FALSE)
        /\ playerRewards[p] = 0
        /\ raceBalance[p] > 0

\* C4 - claim atomicity: a claimRewards whose token transfer fails because
\* the contract holds fewer RACE than the caller's entry is rejected as a
\* whole: the entry keeps its value and nothing else changes.
C4_ClaimAtomic ==
    [][\A p \in Players :
          (Called("claimRewards", p) /\ playerRewards[p] > 0
              /\ raceBalance[GAME] < playerRewards[p] /\ ClaimRewards(p))
              => /\ ~lastCall'.ok
                 /\ playerRewards' = playerRewards
                 /\ UNCHANGED <<chainVars, histVars>>]_vars

\* a claim was rejected while the caller's entry exceeds the contract's RACE
C4_Witness ==
    \E p \in Players :
        /\ CallWas("claimRewards", p, FALSE)
        /\ playerRewards[p] > 0
        /\ raceBalance[GAME] < playerRewards[p]

\* C5 - session lifecycle guard: completeGame succeeds only on an allocated
\* session, called by its player, not yet completed; a call by another
\* caller or on an id never allocated is rejected and changes neither the
\* session store nor the ledger nor the daily completion set; a completed
\* session stays completed.
C5_LifecycleGuard ==
    [][/\ \A p \in Players, s \in SessionIds, sc \in Scores, d \in Distances,
             v \in Dodges :
             (Called("completeGame", p) /\ CompleteGame(p, s, sc, d, v)) =>
                 /\ lastCall'.ok =>
                       /\ Allocated(s)
                       /\ gameSessions[s].player = p
                       /\ ~gameSessions[s].completed
                       /\ gameSessions'[s].completed
                 /\ (~Allocated(s) \/ gameSessions[s].player # p) =>
                       /\ ~lastCall'.ok
                       /\ UNCHANGED <<gameSessions, playerRewards,
                                      completedDailyChallenges>>
       /\ \A s \in SessionIds :
             gameSessions[s].completed => gameSessions'[s].completed]_vars

\* a player without any session called completeGame while another player's
\* session was pending, and was rejected
C5_Witness ==
    \E p \in Players :
        /\ CallWas("completeGame", p, FALSE)
        /\ playerSessions[p] = << >>
        /\ \E s \in SessionIds :
              Allocated(s) /\ gameSessions[s].player # p /\ ~gameSessions[s].completed

\* C6 - ownership gate: startGame by a caller that is not the current owner
\* of the bike (never-minted ids included) is rejected in every game mode:
\* no session record, nextSessionId unchanged, no fee taken, race counter
\* unchanged.
C6_OwnershipGate ==
    [][\A p \in Players, b \in BikeIds, m \in GameModes :
          (Called("startGame", p) /\ bikeOwner[b] # p /\ StartGame(p, b, m))
              => /\ ~lastCall'.ok
                 /\ UNCHANGED <<gameSessions, nextSessionId, playerSessions,
                                usdcBalance, usdcAllowance, totalPrizePool,
                                bikeNFTs>>]_vars

\* the player who could pay the ranked fee called startGame while the only
\* bike belongs to someone else, and was rejected
C6_Witness ==
    /\ CallWas("startGame", RichPlayer, FALSE)
    /\ ownedBikes[RichPlayer] = << >>
    /\ \E b \in BikeIds : bikeOwner[b] \in Players \ {RichPlayer}
    /\ usdcBalance[RichPlayer] >= RANKED_ENTRY_FEE
    /\ usdcAllowance[RichPlayer] >= RANKED_ENTRY_FEE

\* the session the i-th user operation's completeGame call names
CompletedSession(i) == userOps[i].calls[1].args[1]

\* C7 - completion flow is one atomic batch: the reconciler submits
\* completeGame and claimRewards for the played session as one relayed batch
\* [completeGame, claimRewards]; when the batch settles successfully the
\* player's ledger entry is 0 and the player's RACE balance has grown by the
\* pre-batch entry plus the session's reward; when it reverts the session is
\* still pending and the ledger is unchanged.
C7_CompletionBatchForPlayedSession ==
    [][\A i \in 1 .. Len(userOps) :
          (~Settled(i) /\ IsCompletion(userOps[i]) /\ SettleOp(i)) =>
              /\ Len(userOps[i].calls) = 2
              /\ userOps[i].calls[2].fn = "claimRewards"
              /\ userOps[i].played.kind = "chain"
                    => CompletedSession(i) = userOps[i].played.id
              /\ IF userOps'[i].status = "success"
                 THEN /\ playerRewards'[ME] = 0
                      /\ gameSessions'[CompletedSession(i)].completed
                      /\ raceBalance'[ME] = raceBalance[ME] + playerRewards[ME]
                            + gameSessions'[CompletedSession(i)].rewardsClaimed
                 ELSE UNCHANGED <<gameSessions, playerRewards, raceBalance>>]_vars

\* C8 - at-most-once completion by the reconciler: for one started game at
\* most one completion takes effect on the chain, whether a further
\* completeCurrentGame comes after a successful completion or while the
\* first is still awaiting settlement.
C8_AtMostOnceCompletion ==
    \A g \in 1 .. MaxGames : completionsOnChain[g] <= 1

\* C9 - no automatic mint resubmission: for one mintBike request of the
\* player the reconciler hands the [approve, mintBike] batch to the relay at
\* most once, whatever the outcome of the send, the receipt wait and the
\* timers that follow.
C9_NoMintResubmission ==
    \A k \in 1 .. Len(mintSubmits) : mintSubmits[k] <= 1

\* a mint whose receipt wait timed out was reported as failed, its batch
\* settled afterwards, and the batch was handed to the relay once
C9_Witness ==
    /\ mintCall.pc = "idle"
    /\ ui.error = ErrReceiptTimeout
    /\ \E i \in 1 .. Len(userOps) :
          userOps[i].calls[1].fn = "approve" /\ userOps[i].status = "success"
    /\ \E k \in 1 .. Len(mintSubmits) : mintSubmits[k] = 1

\* C10 - daily challenge single-grant: for every player and day index the
\* day's challenge reward is added to the player's ledger at most once.
C10_DailySingleGrant ==
    \A p \in Players, d \in Days : bonusGrants[p][d] <= 1

\* on the deployment day a player has completed two DailyChallenge sessions,
\* both with a score that reaches the day's target, and got the reward once
C10_Witness ==
    \E p \in Players :
        /\ getCurrentDay(S) = 0
        /\ bonusGrants[p][0] = 1
        /\ \E s1, s2 \in SessionIds :
              /\ s1 # s2
              /\ \A s \in {s1, s2} :
                    /\ gameSessions[s].player = p
                    /\ gameSessions[s].gameMode = DAILY_CHALLENGE
                    /\ gameSessions[s].completed
                    /\ gameSessions[s].score >= dailyChallenges[0].targetScore

\* C11 - Scenario C reward value: a completed Practice session with score
\* 1000, distance 2000 and 10 vehicles dodged on a bike with stats
\* (95, 85, 70) has credited the ledger with floor((10 + 2.5 + 10 + 10 + 20) / 2)
\* = 26 RACE, the bike-stat bonus being (95 + 85 + 70) / 100 = 2.5 RACE.
C11_ScenarioCReward ==
    \A s \in SessionIds :
        (/\ gameSessions[s].completed
         /\ gameSessions[s].gameMode = PRACTICE
         /\ gameSessions[s].score = 1000
         /\ gameSessions[s].distance = 2000
         /\ gameSessions[s].vehiclesDodged = 10
         /\ bikeNFTs[gameSessions[s].bikeTokenId].speed = 95
         /\ bikeNFTs[gameSessions[s].bikeTokenId].acceleration = 85
         /\ bikeNFTs[gameSessions[s].bikeTokenId].handling = 70)
            => gameSessions[s].rewardsClaimed = 26 * RACE

\* the reward of the specification's formula: base 10 RACE, bike-stat bonus
\* (speed + acceleration + handling) / 100 RACE, 1 RACE per 100 points,
\* 5 RACE per 1000 m, 2 RACE per dodge
FullReward(bike, score, distance, vehiclesDodged) ==
    10 * RACE
    + ((bike.speed + bike.acceleration + bike.handling) * RACE) \div 100
    + (score \div 100) * RACE
    + (distance \div 1000) * 5 * RACE
    + vehiclesDodged * 2 * RACE

ModeReward(full, gameMode, bonusDue, dayReward) ==
    IF gameMode = PRACTICE THEN full \div 2
    ELSE IF gameMode = DAILY_CHALLENGE /\ bonusDue THEN full + dayReward
    ELSE full

\* C12 - reward is a function of its inputs with mode rules: a successful
\* completeGame credits the caller with full (Ranked), floor(full / 2)
\* (Practice) or full plus the day's reward when the score meets the target
\* and the caller has not completed the day's challenge (DailyChallenge),
\* where full = base + assetBonus + score, distance and dodge bonuses; the
\* amount depends on nothing else.
C12_RewardIsFunction ==
    [][\A p \in Players, s \in SessionIds, sc \in Scores, d \in Distances,
          v \in Dodges :
          (Called("completeGame", p) /\ CompleteGame(p, s, sc, d, v)
                                     /\ lastCall'.ok)
              => playerRewards'[p] - playerRewards[p] =
                    ModeReward(
                        FullReward(bikeNFTs[gameSessions[s].bikeTokenId], sc, d, v),
                        gameSessions[s].gameMode,
                        /\ sc >= dailyChallenges[getCurrentDay(S)].targetScore
                        /\ ~completedDailyChallenges[p][getCurrentDay(S)],
                        dailyChallenges[getCurrentDay(S)].rewardAmount)]_vars

\* the results a service operation can return in one situation; the
\* completion has no receipt-wait timeout
Returned(op, situation) ==
    IF op = "mint"
    THEN {mintBikeService(situation, e) : e \in RelayErrors}
    ELSE IF op = "start"
    THEN {startGameService(situation, e, sid) :
            e \in RelayErrors,
            sid \in {LocalSession} \cup {ChainSession(n) : n \in 0..MaxSessions}}
    ELSE IF situation = "timeout" THEN {}
    ELSE {completeGameService(situation, e) : e \in RelayErrors}

\* C13 - Three distinguishable outcomes: the result an operation returned in
\* one of the situations receipt confirmed, definite failure and receipt wait
\* timed out is never a value the same operation returns in another of them.
C13_ThreeOutcomes ==
    \A o \in outcomes :
        \A other \in {"receipt", "failure", "timeout"} \ {o.situation} :
            o.situation \in {"receipt", "failure", "timeout"}
                => o.result \notin Returned(o.op, other)

\* C14 - Mint timeout handling: when the receipt wait of a submitted mint
\* batch expires, the bike type is not marked as owned, the returned result
\* is none of the results of a definite failure, and a delayed re-check of
\* the owned bikes and the USDC balance is scheduled.
C14_MintTimeoutHandling ==
    [][MintBikeTimeout =>
          /\ ui'.mintedBikeTypes = ui.mintedBikeTypes
          /\ mintBikeService("timeout", NoError) \notin Returned("mint", "failure")
          /\ [kind |-> "recheck", bikeType |-> mintCall.bikeType] \in timers'
      ]_vars

\* no call of the client is in flight, no timer is pending and every user
\* operation has settled: only a new request of the player can change the state
Quiescent ==
    /\ mintCall.pc = "idle"
    /\ startCall.pc = "idle"
    /\ \A i \in DOMAIN completeCalls : completeCalls[i].pc \in {"idle", "done"}
    /\ timers = {}
    /\ \A i \in DOMAIN userOps : Settled(i)

\* the [startGame] batch of a start whose receipt wait timed out has settled
\* successfully on the chain
TimedOutStartSettled ==
    /\ Outcome("start", "timeout", startGameService("timeout", NoError, NoSession))
           \in outcomes
    /\ \E i \in DOMAIN userOps :
          /\ userOps[i].game = 0
          /\ userOps[i].calls[1].fn = "startGame"
          /\ userOps[i].status = "success"

\* C15 - Start timeout is reconciled: once the batch of a timed-out Ranked or
\* DailyChallenge start has settled on the chain and all background work of
\* the client has finished, the current session id of the game still being
\* played is the id of the player's on-chain session of that mode.
C15_StartTimeoutReconciled ==
    (TimedOutStartSettled /\ Quiescent /\ ui.gameStarted /\ ~ui.gameCompleted)
        => /\ ui.currentSessionId.kind = "chain"
           /\ ui.currentSessionId.id \in SessionIds
           /\ gameSessions[ui.currentSessionId.id].player = ME
           /\ gameSessions[ui.currentSessionId.id].gameMode = ui.currentGameMode

\* C16 - Start rejection leaves no active session: after a startNewGame whose
\* [startGame] batch the relay rejected, gameStarted is false, the current
\* session id is null and an error is set.
C16_StartRejectionNoSession ==
    [][\A m \in GameModes, e \in RelayErrors :
          (StartRejected(m, e) /\ StartNewGame(m, e))
              => /\ ~ui'.gameStarted
                 /\ ui'.currentSessionId = NoSession
                 /\ ui'.error # NoError
      ]_vars

\* the identity of an allocated session record: its player, bike, mode and
\* start timestamp
SessionIdentity(g) ==
    <<g.player, g.bikeTokenId, g.gameMode, g.timestamp>>

\* C17 - Session ids are an append-only monotonic log: the k-th successful
\* startGame returns id k, nextSessionId is 1 plus the number of successful
\* starts, only a successful startGame advances it, and the player, bike,
\* mode and start timestamp of every allocated record never change (the
\* record is never removed).
C17_SessionLog ==
    /\ [](/\ nextSessionId = 1 + Len(startLog)
          /\ \A k \in 1 .. Len(startLog) : startLog[k] = k
          /\ \A s \in SessionIds : Allocated(s) => gameSessions[s].player # ZERO)
    /\ [][/\ nextSessionId' # nextSessionId
               => /\ lastCall'.op = "startGame" /\ lastCall'.ok
                  /\ nextSessionId' = nextSessionId + 1
          /\ \A s \in SessionIds :
                Allocated(s) =>
                   SessionIdentity(gameSessions'[s]) = SessionIdentity(gameSessions[s])
         ]_vars

\* two starts have succeeded and the first session has since been completed
C17_Witness ==
    /\ Len(startLog) = 2
    /\ gameSessions[1].completed

\* C18 - Scenario B: a Ranked startGame by the owner of the bike whose USDC
\* balance or allowance is below the entry fee is rejected; no session record
\* exists for the would-be id, and nextSessionId, totalPrizePool and the
\* bike's race counter are unchanged.
C18_RankedStartRejected ==
    [][\A p \in Players, b \in BikeIds :
          (/\ Called("startGame", p)
           /\ bikeOwner[b] = p
           /\ usdcBalance[p] < RANKED_ENTRY_FEE \/ usdcAllowance[p] < RANKED_ENTRY_FEE
           /\ StartGame(p, b, RANKED))
              => /\ ~lastCall'.ok
                 /\ gameSessions'[nextSessionId] = EmptySession
                 /\ nextSessionId' = nextSessionId
                 /\ totalPrizePool' = totalPrizePool
                 /\ bikeNFTs'[b].totalRaces = bikeNFTs[b].totalRaces
      ]_vars

\* the last call was a rejected Ranked start by the owner of the bike, who
\* holds less than the entry fee but has approved it
C18_Witness ==
    \E p \in Players, b \in BikeIds :
        /\ CallWas("startGame", p, FALSE)
        /\ lastCall.args = <<b, RANKED>>
        /\ bikeOwner[b] = p
        /\ usdcBalance[p] < RANKED_ENTRY_FEE
        /\ usdcAllowance[p] >= RANKED_ENTRY_FEE

\* C19 - Mode-specific start fee: a successful Ranked startGame moves exactly
\* 5 USDC from the caller to the contract and adds exactly 4 USDC to
\* totalPrizePool; a successful Practice or DailyChallenge startGame moves no
\* USDC and leaves totalPrizePool unchanged.
C19_ModeSpecificFee ==
    [][\A p \in Players, b \in BikeIds, m \in GameModes :
          (Called("startGame", p) /\ StartGame(p, b, m) /\ lastCall'.ok)
              => IF m = RANKED
                 THEN /\ usdcBalance' = [usdcBalance EXCEPT
                                           ![p] = @ - 5 * USDC,
                                           ![GAME] = @ + 5 * USDC]
                      /\ totalPrizePool' = totalPrizePool + 4 * USDC
                 ELSE /\ usdcBalance' = usdcBalance
                      /\ totalPrizePool' = totalPrizePool
      ]_vars

\* a DailyChallenge start and then a Ranked start have succeeded: the prize
\* pool holds the 4 USDC of the one Ranked start
C19_Witness ==
    /\ \E p \in Players : CallWas("startGame", p, TRUE)
    /\ lastCall.args[2] = RANKED
    /\ Len(startLog) = 2
    /\ gameSessions[1].gameMode = DAILY_CHALLENGE
    /\ totalPrizePool = 4 * USDC

\* C20 - Mint effect (Scenario A): a successful mintBike of category T moves
\* exactly 1, 3 or 5 USDC (Sports, Lady, Chopper) from the caller to the
\* contract, issues to the caller the bike whose id is the number of earlier
\* successful mints, and stores the stats (95,85,70), (70,75,90) or
\* (80,60,85) with both race counters at 0.
C20_MintEffect ==
    /\ [](\A k \in 1 .. Len(mintLog) : mintLog[k] = k - 1)
    /\ [][\A p \in Players, t \in BikeTypes, n \in Names :
             (Called("mintBike", p) /\ MintBikeSeries(p, t, n) /\ lastCall'.ok)
                 => LET price == IF t = SPORTS THEN 1 * USDC
                                 ELSE IF t = LADY THEN 3 * USDC ELSE 5 * USDC
                        stats == IF t = SPORTS THEN <<95, 85, 70>>
                                 ELSE IF t = LADY THEN <<70, 75, 90>>
                                 ELSE <<80, 60, 85>>
                        id    == Len(mintLog)
                        bike  == bikeNFTs'[id]
                    IN  /\ usdcBalance' = [usdcBalance EXCEPT
                                             ![p] = @ - price,
                                             ![GAME] = @ + price]
                        /\ mintLog' = Append(mintLog, id)
                        /\ bikeOwner[id] = ZERO /\ bikeOwner'[id] = p
                        /\ bike.bikeType = t
                        /\ <<bike.speed, bike.acceleration, bike.handling>> = stats
                        /\ bike.totalRaces = 0 /\ bike.totalWins = 0
         ]_vars

\* the third bike, a Lady, has just been minted after the first bike raced
C20_Witness ==
    /\ \E p \in Players : CallWas("mintBike", p, TRUE)
    /\ lastCall.args = <<LADY>>
    /\ mintLog = <<0, 1, 2>>
    /\ bikeNFTs[0].totalRaces > 0
    /\ bikeNFTs[2].bikeType = LADY

\* C21 - Mint payment failure is atomic: a mintBike by a caller whose USDC
\* balance or allowance is below the category price is rejected; no bike is
\* issued, the bike id counter is unchanged and no USDC balance changes.
C21_MintPaymentAtomic ==
    [][\A p \in Players, t \in BikeTypes, n \in Names :
          (/\ Called("mintBike", p)
           /\ usdcBalance[p] < getBikeMintPrice(t)
                 \/ usdcAllowance[p] < getBikeMintPrice(t)
           /\ MintBikeSeries(p, t, n))
              => /\ ~lastCall'.ok
                 /\ tokenIdCounter' = tokenIdCounter
                 /\ bikeOwner' = bikeOwner
                 /\ bikeNFTs' = bikeNFTs
                 /\ ownedBikes' = ownedBikes
                 /\ usdcBalance' = usdcBalance
      ]_vars

\* a Lady mint was just rejected for a caller who holds the price but, after
\* an earlier mint, has approved less than it
C21_Witness ==
    \E p \in Players :
        /\ CallWas("mintBike", p, FALSE)
        /\ lastCall.args = <<LADY>>
        /\ Len(ownedBikes[p]) >= 1
        /\ usdcBalance[p] >= LADY_BIKE_PRICE
        /\ usdcAllowance[p] < LADY_BIKE_PRICE

\* C22 - Reward-credit transfer: transferTokensToPlayer(to, amount) succeeds
\* exactly when amount <= the sender's ledger entry, to # sender and to is not
\* the null address; on success the sender's entry decreases and the
\* receiver's increases by amount, the sum of all entries and every RACE
\* balance are unchanged; on rejection nothing changes; no entry is negative.
C22_CreditTransfer ==
    /\ [](\A a \in Addresses : playerRewards[a] >= 0)
    /\ [][\A p \in Players, to \in Players \cup {ZERO}, amt \in Amounts :
             (Called("transferTokensToPlayer", p)
                 /\ TransferTokensToPlayer(p, to, amt)) =>
                IF amt <= playerRewards[p] /\ to # p /\ to # ZERO
                THEN /\ lastCall'.ok
                     /\ playerRewards' = [playerRewards EXCEPT
                                            ![p] = @ - amt, ![to] = @ + amt]
                     /\ SumOver(playerRewards', Addresses)
                            = SumOver(playerRewards, Addresses)
                     /\ raceBalance' = raceBalance
                ELSE /\ ~lastCall'.ok
                     /\ UNCHANGED <<chainVars, histVars>>
         ]_vars

\* a transfer has just succeeded: the receiver, who never played, holds the
\* amount and the sender keeps the rest of its credits
C22_Witness ==
    \E p \in Players, to \in Players :
        /\ CallWas("transferTokensToPlayer", p, TRUE)
        /\ to # p
        /\ playerSessions[to] = << >>
        /\ playerRewards[to] = 40 * RACE
        /\ playerRewards[p] > 0

\* C23 - DailyChallenge start precondition: a DailyChallenge startGame
\* succeeds only if the challenge record of the current day exists and is
\* active and the caller is not in that day's completion set; otherwise it is
\* rejected without creating a session, in particular on a new day for which
\* updateDailyChallenge has not yet been called.
C23_DailyStartPrecondition ==
    [][\A p \in Players, b \in BikeIds :
          (/\ Called("startGame", p)
           /\ lastCall'.args = <<b, DAILY_CHALLENGE>>
           /\ StartGame(p, b, DAILY_CHALLENGE))
              => LET today == getCurrentDay(S)
                     met   == /\ dailyChallenges[today].challengeDate = today
                              /\ dailyChallenges[today].active
                              /\ ~completedDailyChallenges[p][today]
                 IN  /\ lastCall'.ok => met
                     /\ ~met => /\ ~lastCall'.ok
                                /\ gameSessions' = gameSessions
                                /\ playerSessions' = playerSessions
                                /\ nextSessionId' = nextSessionId
                     /\ today > currentChallengeDate => ~lastCall'.ok
      ]_vars

\* on the day after deployment, before any updateDailyChallenge, the owner
\* of a bike who has completed no challenge was just refused a
\* DailyChallenge start
C23_Witness ==
    \E p \in Players, b \in BikeIds :
        /\ CallWas("startGame", p, FALSE)
        /\ lastCall.args = <<b, DAILY_CHALLENGE>>
        /\ bikeOwner[b] = p
        /\ getCurrentDay(S) = 1
        /\ currentChallengeDate = 0
        /\ \A d \in Days : ~completedDailyChallenges[p][d]

\* the DailyChallenge sessions of player p that were started on day d and are
\* completed
DailyCompleted(p, d) ==
    {s \in SessionIds :
        /\ Allocated(s)
        /\ gameSessions[s].player = p
        /\ gameSessions[s].gameMode = DAILY_CHALLENGE
        /\ gameSessions[s].completed
        /\ gameSessions[s].timestamp \div DAY_SECONDS = d}

\* C24 - One DailyChallenge session per player per day: while the day index
\* is d, at most one DailyChallenge session of a player that was started on
\* day d is completed (such a session was completed on day d).
C24_OneDailySessionPerDay ==
    \A p \in Players :
        Cardinality(DailyCompleted(p, getCurrentDay(S))) <= 1

\* C25 - Daily challenge rollover: updateDailyChallenge never reverts; when
\* the day index is greater than currentChallengeDate it deactivates the
\* stored day's challenge, sets currentChallengeDate to today and creates an
\* active challenge for today with the reward of 50 RACE; when the day index
\* has not advanced it changes nothing.
C25_DailyRollover ==
    [][(lastCall'.op = "updateDailyChallenge" /\ UpdateDailyChallenge) =>
          LET today  == getCurrentDay(S)
              stored == currentChallengeDate
          IN  /\ lastCall'.ok
              /\ IF today > stored
                 THEN /\ ~dailyChallenges'[stored].active
                      /\ currentChallengeDate' = today
                      /\ dailyChallenges'[today].challengeDate = today
                      /\ dailyChallenges'[today].active
                      /\ dailyChallenges'[today].rewardAmount = 50 * RACE
                      /\ \A d \in Days \ {today, stored} :
                            dailyChallenges'[d] = dailyChallenges[d]
                      /\ UNCHANGED <<gameSessions, playerRewards,
                                     completedDailyChallenges, usdcBalance,
                                     raceBalance, nextSessionId>>
                 ELSE UNCHANGED <<chainVars, histVars>>
      ]_vars

\* the day after deployment the challenge has been rolled over: day 0 is
\* inactive, day 1 is current and active
C25_Witness ==
    /\ lastCall.op = "updateDailyChallenge"
    /\ getCurrentDay(S) = 1
    /\ currentChallengeDate = 1
    /\ ~dailyChallenges[0].active
    /\ dailyChallenges[1].active

\* the timers of the post-mint verification that are still pending
PendingChecks == {tm \in timers : tm.kind \in {"verify", "retry"}}

\* C26 - Post-mint verification schedule: a confirmed mint adds the bike
\* type to the local owned set at once and arms exactly one verification;
\* a verification that finds the type on-chain reloads the owned set and
\* arms nothing, one that does not find it arms exactly one further refresh
\* and leaves the local state alone; the refresh reloads the owned set and
\* arms nothing; after the last of these the local owned set is the set the
\* chain read returned, and at no time are more checks pending than mints
\* were requested.
C26_PostMintSchedule ==
    /\ [](Cardinality(PendingChecks) <= Len(mintSubmits))
    /\ [][MintBikeReceipt =>
             /\ ui'.mintedBikeTypes = ui.mintedBikeTypes \cup {mintCall.bikeType}
             /\ timers' = timers \cup
                    {[kind |-> "verify", bikeType |-> mintCall.bikeType]}
         ]_vars
    /\ [][\A tm \in timers, verify \in ReadOutcomes, reads \in ReadSeqs,
            read \in ReadOutcomes :
             VerifyTimer(tm, verify, reads, read) =>
                IF verify = "ok" /\ tm.bikeType \in bikeTypesOf(S, ownedBikes[ME])
                THEN /\ timers' = timers \ {tm}
                     /\ ui'.mintedBikeTypes = getOwnedBikeTypesReliable(S, reads)
                     /\ PendingChecks' = PendingChecks \ {tm}
                ELSE /\ timers' = (timers \ {tm}) \cup
                                     {[kind |-> "retry", bikeType |-> tm.bikeType]}
                     /\ ui' = ui
         ]_vars
    /\ [][\A tm \in timers, reads \in ReadSeqs, read \in ReadOutcomes :
             (tm.kind = "retry" /\ ReloadTimer(tm, reads, read)) =>
                /\ timers' = timers \ {tm}
                /\ ui'.mintedBikeTypes = getOwnedBikeTypesReliable(S, reads)
                /\ PendingChecks' = PendingChecks \ {tm}
         ]_vars

\* the mint was confirmed and its bike is on the chain; the checks that
\* followed have all run, the last reload could not read the chain, and the
\* local owned set is the empty set that read returned
C26_Witness ==
    /\ \E o \in outcomes : o.op = "mint" /\ o.situation = "receipt"
    /\ mintCall.pc = "idle"
    /\ timers = {}
    /\ ownedBikes[ME] # << >>
    /\ ui.mintedBikeTypes = {}
    /\ ui.ownedBikes # << >>

\* the set the k-th enumeration of the owned categories yields
Enumerated(st, reads, k) == bikeTypesOf(st, getPlayerBikes(st, reads[k]))

\* the first non-empty set among the maxRetries enumerations, or the empty
\* set when all of them come back empty
FirstNonEmpty(st, reads) ==
    IF \A k \in 1 .. maxRetries : Enumerated(st, reads, k) = {} THEN {}
    ELSE Enumerated(st, reads,
            CHOOSE k \in 1 .. maxRetries :
                /\ Enumerated(st, reads, k) # {}
                /\ \A j \in 1 .. (k - 1) : Enumerated(st, reads, j) = {})

\* C27 - Owned-categories retry budget: getOwnedBikeTypesReliable, as called
\* by a reload of the owned bikes, returns the first non-empty set among at
\* most 3 enumeration attempts and the empty set only when all 3 attempts
\* came back empty.
C27_RetryBudget ==
    [][\A tm \in timers, reads \in ReadSeqs, read \in ReadOutcomes :
          ReloadTimer(tm, reads, read)
              => ui'.mintedBikeTypes = FirstNonEmpty(S, reads)
      ]_vars

\* a number the client made from the wall clock, not an id the contract gave
Placeholder(n) == n >= DeployTime * 1000

\* C28: placeholder ids stay local: no user operation the client submits
\* carries a completeGame call whose sessionId argument is an id the client
\* synthesized from wall-clock time.
C28_PlaceholderStaysLocal ==
    \A i \in DOMAIN userOps :
        \A k \in DOMAIN userOps[i].calls :
            userOps[i].calls[k].fn = "completeGame"
                => ~Placeholder(userOps[i].calls[k].args[1])

\* what a bike is: the fields mintBike writes and nothing later may change
BikeIdentity(b) ==
    <<b.bikeType, b.speed, b.acceleration, b.handling, b.mintTime, b.name,
      b.totalWins>>

\* the step is a successful startGame on bike b
StartedOn(b) ==
    \E p \in Players, m \in GameModes :
        /\ Called("startGame", p)
        /\ lastCall'.ok
        /\ StartGame(p, b, m)

\* C29 - asset immutability: once a bike is minted, no step changes its
\* category, speed, acceleration, handling, mint time or name (nor its win
\* counter); its totalRaces grows by exactly 1 in a successful startGame on
\* that bike and stays as it is in every other step, rejected calls,
\* completeGame and claimRewards included.
C29_AssetImmutability ==
    [][\A b \in BikeIds :
          b < tokenIdCounter =>
             /\ BikeIdentity(bikeNFTs'[b]) = BikeIdentity(bikeNFTs[b])
             /\ bikeNFTs'[b].totalRaces =
                   bikeNFTs[b].totalRaces + (IF StartedOn(b) THEN 1 ELSE 0)
      ]_vars

\* a bike has been raced twice, one of its sessions is completed and its
\* rewards were claimed, and the last call was rejected
C29_Witness ==
    \E b \in BikeIds :
        /\ b < tokenIdCounter
        /\ bikeNFTs[b].totalRaces = 2
        /\ \E s \in SessionIds : gameSessions[s].completed
                                   /\ gameSessions[s].bikeTokenId = b
        /\ sumClaimed > 0
        /\ ~lastCall.ok

\* a completion call is waiting for the receipt of a batch it submitted
AwaitingReceipt(i) == completeCalls[i].pc \in {"awaitStart", "awaitComplete"}

\* C30 - bounded settlement waits: a mint, start or completion call that is
\* waiting for a receipt can always take its next step by itself, on the
\* receipt if the relay delivered one and on the 60 s timeout if not, so the
\* call returns a result even when the relay never settles the batch; and a
\* completion that timed out after a hash was returned reports success.
C30_BoundedWaits ==
    /\ mintCall.pc = "awaitReceipt"
          => ENABLED MintBikeReceipt \/ ENABLED MintBikeTimeout
    /\ startCall.pc = "awaitReceipt"
          => \/ ENABLED (\E readOk \in BOOLEAN : StartGameReceipt(readOk))
             \/ ENABLED StartGameTimeout
    /\ \A i \in 1 .. MaxInvocations :
          AwaitingReceipt(i)
             => \/ ENABLED (\E e \in SendOutcomes : CompleteSendBatch(i, e))
                \/ ENABLED CompleteReceipt(i)
    /\ \A o \in outcomes :
          o.op = "complete" /\ o.situation = "timeout"
             => o.result.success /\ o.result.transactionHash = "hash"

\* session n is a session of the client on that bike in that mode
OwnSession(n, bikeTokenId, gameMode) ==
    /\ n \in SessionIds
    /\ gameSessions[n].player = ME
    /\ gameSessions[n].bikeTokenId = bikeTokenId
    /\ gameSessions[n].gameMode = gameMode

\* C31 - session id read-back: when the client's startGame batch has settled
\* with success and the client reads nextSessionId, the id nextSessionId - 1
\* it adopts (as currentSessionId after startGame, as the sessionId of the
\* completeGame call in completeGameWithSession) is a session of the client,
\* on the bike and in the mode of that batch, also when another player's
\* startGame was ordered between the settlement and the read.
C31_ReadBackOwnSession ==
    [][/\ (/\ startCall.pc = "awaitReceipt"
           /\ userOps[startCall.op].status = "success"
           /\ StartGameReceipt(TRUE))
              => /\ ui'.currentSessionId.kind = "chain"
                 /\ OwnSession(ui'.currentSessionId.id, startCall.bikeTokenId,
                               startCall.gameMode)
       /\ \A i \in 1 .. MaxInvocations :
             (/\ completeCalls[i].pc = "awaitStart"
              /\ userOps[completeCalls[i].op].status = "success"
              /\ CompleteSendBatch(i, NoError))
                 => OwnSession(userOps'[Len(userOps')].calls[1].args[1],
                               completeCalls[i].bikeTokenId, PRACTICE)
      ]_vars

\* C32 - the completed session is the started one: a completion batch that
\* took effect completed the session the game was played in (the id the
\* start gave, hence its bike and its mode), and the client has created no
\* more on-chain sessions than it has started games.
C32_CompletedIsStarted ==
    /\ \A i \in DOMAIN userOps :
          (/\ IsCompletion(userOps[i])
           /\ userOps[i].status = "success"
           /\ userOps[i].played.kind = "chain")
              => /\ CompletedSession(i) = userOps[i].played.id
                 /\ gameSessions[userOps[i].played.id].completed
    /\ startCall.pc = "idle" => Len(playerSessions[ME]) <= games

\* C33 - the completion set only records real challenges: a step that
\* records a player in completedDailyChallenges for day d is taken while an
\* active challenge record exists for day d, and with a score of at least
\* that challenge's target.
C33_CompletionSetReal ==
    [][\A p \in Players, d \in Days :
          (completedDailyChallenges'[p][d] /\ ~completedDailyChallenges[p][d])
             => /\ dailyChallenges[d].active
                /\ dailyChallenges[d].challengeDate = d
                /\ challengeBestScores'[d][p] >= dailyChallenges[d].targetScore
      ]_vars

\* the ids of a list, and whether the list names each of them once
IdsOf(tokenIds) == {tokenIds[k] : k \in DOMAIN tokenIds}
EachOnce(tokenIds) == Cardinality(IdsOf(tokenIds)) = Len(tokenIds)

\* C34 - the fallback ownership scan is exact: when a read of the enumerable
\* index fails, the list getPlayerBikes returns names exactly the bike ids
\* the account owns, each once, whoever owns the other minted ids and however
\* many ids had been collected before the failure.
C34_FallbackScanExact ==
    [][\A failAt \in 0 .. MaxMints :
          (failAt < Len(ownedBikes[ME]) /\ LoadPlayerBikes(failAt))
             => /\ IdsOf(ui'.ownedBikes) = {b \in BikeIds : bikeOwner[b] = ME}
                /\ EachOnce(ui'.ownedBikes)
      ]_vars

\* C35 - pause gating: while the contract is paused every mintBike and
\* startGame is rejected and changes nothing; completeGame, claimRewards and
\* transferTokensToPlayer are accepted exactly when their own requirements
\* hold, so a pending session can be completed and its reward claimed; and
\* the paused flag changes only in a successful pause or unpause of the owner.
C35_PauseGating ==
    /\ [][paused =>
            /\ \A p \in Players, t \in BikeTypes, n \in Names :
                  (Called("mintBike", p) /\ MintBike(p, t, n))
                     => ~lastCall'.ok /\ UNCHANGED <<chainVars, histVars>>
            /\ \A p \in Players, b \in RacedBikeIds, m \in GameModes :
                  (Called("startGame", p) /\ StartGame(p, b, m))
                     => ~lastCall'.ok /\ UNCHANGED <<chainVars, histVars>>
            /\ \A p \in Players, s \in SessionIds, sc \in Scores,
                  d \in Distances, v \in Dodges :
                  (Called("completeGame", p) /\ CompleteGame(p, s, sc, d, v))
                     => /\ lastCall'.ok = completeGameGuard(S, p, s)
                        /\ lastCall'.ok => gameSessions'[s].completed
            /\ \A p \in Players :
                  (Called("claimRewards", p) /\ ClaimRewards(p))
                     => lastCall'.ok = (/\ playerRewards[p] > 0
                                        /\ raceBalance[GAME] >= playerRewards[p])
            /\ \A p \in Players, to \in Players \cup {ZERO}, a \in Amounts :
                  (Called("transferTokensToPlayer", p)
                      /\ TransferTokensToPlayer(p, to, a))
                     => lastCall'.ok = (/\ playerRewards[p] >= a
                                        /\ to # p /\ to # ZERO)
         ]_vars
    /\ [][paused' # paused =>
            /\ lastCall'.sender = OWNER
            /\ lastCall'.ok
            /\ lastCall'.op = IF paused THEN "unpause" ELSE "pause"
         ]_vars

\* the contract is paused and the last call completed, with success, a
\* session that was started before the pause; its reward is in the ledger
C35_Witness ==
    /\ paused
    /\ \E p \in Players :
          /\ CallWas("completeGame", p, TRUE)
          /\ playerRewards[p] > 0
          /\ gameSessions[lastCall.args[1]].completed

\* C36 - the prize pool is always backed: the contract's USDC balance is at
\* least totalPrizePool in every reachable state and totalPrizePool never
\* decreases; withdrawFees succeeds for the owner only, exactly when the
\* balance exceeds the pool, pays the owner the balance less the pool and
\* leaves the pool, untouched, in the contract.
C36_PrizePoolBacked ==
    /\ [](usdcBalance[GAME] >= totalPrizePool)
    /\ [][totalPrizePool' >= totalPrizePool]_vars
    /\ [][\A p \in Senders :
             (Called("withdrawFees", p) /\ WithdrawFees(p))
                => /\ lastCall'.ok
                        = (p = OWNER /\ usdcBalance[GAME] > totalPrizePool)
                   /\ lastCall'.ok
                        => /\ usdcBalance'[OWNER] = usdcBalance[OWNER]
                                 + (usdcBalance[GAME] - totalPrizePool)
                           /\ usdcBalance'[GAME] = totalPrizePool
                           /\ totalPrizePool' = totalPrizePool
         ]_vars

\* the owner has just withdrawn the fees while a prize pool was held
C36_Witness ==
    /\ CallWas("withdrawFees", OWNER, TRUE)
    /\ totalPrizePool > 0
    /\ usdcBalance[GAME] = totalPrizePool
    /\ usdcBalance[OWNER] > 0

\* a challenge record has been created for day d
ChallengeCreated(d) == dailyChallenges[d] # EmptyChallenge

\* C37 - single active challenge: in every reachable state an active
\* challenge record is the record of currentChallengeDate, so at most one is
\* active; currentChallengeDate never decreases; and the target score and
\* the reward amount of a record, once created, never change.
C37_SingleActiveChallenge ==
    /\ [](/\ \A d \in Days : dailyChallenges[d].active => d = currentChallengeDate
          /\ Cardinality({d \in Days : dailyChallenges[d].active}) <= 1)
    /\ [][currentChallengeDate' >= currentChallengeDate]_vars
    /\ [][\A d \in Days :
             ChallengeCreated(d)
                => /\ dailyChallenges'[d].targetScore = dailyChallenges[d].targetScore
                   /\ dailyChallenges'[d].rewardAmount = dailyChallenges[d].rewardAmount
                   /\ dailyChallenges'[d].challengeDate = d
         ]_vars

\* both days have a challenge record with its own target, only the second,
\* current one is active, and a session was started after the rollover
C37_Witness ==
    /\ ChallengeCreated(0) /\ ChallengeCreated(1)
    /\ dailyChallenges[0].targetScore # dailyChallenges[1].targetScore
    /\ currentChallengeDate = 1
    /\ dailyChallenges[1].active /\ ~dailyChallenges[0].active
    /\ CallWas("startGame", RichPlayer, TRUE)
    /\ lastCall.args[2] = DAILY_CHALLENGE

\* all wallet-derived state of the provider is empty
ProjectionCleared(u) ==
    /\ u.usdcBalance = 0
    /\ u.playerRewards = 0
    /\ u.raceTokenBalance = 0
    /\ u.walletRaceTokenBalance = 0
    /\ u.ownedBikes = << >>
    /\ u.mintedBikeTypes = {}
    /\ u.selectedBike = NoBike
    /\ u.currentSessionId = NoSession

\* C38 - disconnect clears the local projection: from disconnectWallet on,
\* while the wallet stays disconnected, the provider's balances and reward
\* amounts are zero, its owned bikes and minted bike types are empty and it
\* has no selected bike and no current session, whatever timers of an earlier
\* mint or completion fire in the meantime.
C38_DisconnectClears ==
    ~ui.isConnected => ProjectionCleared(ui)

\* C38, the timers' part alone: a disconnected provider's owned bikes, minted
\* bike types and balances are not changed by a step (only a timer or a
\* running call can take one).
C38_TimersDoNotRepopulate ==
    [][(~ui.isConnected /\ ~ui'.isConnected) =>
          /\ ui'.ownedBikes = ui.ownedBikes
          /\ ui'.mintedBikeTypes = ui.mintedBikeTypes
          /\ ui'.usdcBalance = ui.usdcBalance
          /\ ui'.walletRaceTokenBalance = ui.walletRaceTokenBalance]_vars

\* C39 - success is reported only on success: the purchase-success message
\* of the menu is shown only after a mint whose result was a success, and the
\* "Transaction confirmed" message of the game-over view only after a
\* completion whose result was a success.
C39_SuccessOnlyOnSuccess ==
    \A o \in outcomes :
       /\ (/\ o.op = "mint"
           /\ handleMintBike(mintBikeSettles(o.result)) = "purchaseSuccess")
             => o.result.success
       /\ (/\ o.op = "complete"
           /\ endGame(completeCurrentGameSettles(o.result)) = "transactionConfirmed")
             => o.result.success

\* C39, the completion alone
C39_CompletionMessage ==
    \A o \in outcomes :
       (/\ o.op = "complete"
        /\ endGame(completeCurrentGameSettles(o.result)) = "transactionConfirmed")
          => o.result.success

\* C39, the mint after a receipt timeout alone
C39_MintTimeoutMessage ==
    \A o \in outcomes :
       (/\ o.op = "mint"
        /\ o.situation = "timeout"
        /\ handleMintBike(mintBikeSettles(o.result)) = "purchaseSuccess")
          => o.result.success

====
